---- MODULE Spec2Model ----
(***************************************************************************)
(* A model of the IMPORT read processor of pkg/ccl/importccl:              *)
(*   readImportDataProcessor.Run, runImport, emitKvs and ingestKvs,        *)
(* with the goroutines they start, the channels between them and the two   *)
(* bulk adders.  Spec is the direct-ingest mode (spec.IngestDirectly),     *)
(* SpecSample the sampling mode.                                           *)
(***************************************************************************)
EXTENDS Integers, Sequences, FiniteSets, Bags

(* ------------------------------ bounds -------------------------------- *)
\* the largest number of input files (len(spec.Uri)) explored
MaxFiles == 2
\* the number of KV batches the converter emits in one run
MaxBatches == 2
\* the number of KVs in one batch
MaxKVs == 1
\* the largest LastRow watermark a batch carries
MaxRow == 1
\* the number of times the reporter's 10 second ticker fires in one run
MaxTicks == 2
\* the number of failures (errors of collaborators, cancellation) in one run
MaxFaults == 1
\* the draws of the sampler's PRNG are the multiples of 1/DrawSteps in [0, 1)
DrawSteps == 4
\* rows are unsigned integers of RowBits bits (uint64 in the source)
RowBits == 4

(* ------------------------- program constants -------------------------- *)
\* kvCh := make(chan row.KVBatch, 10)
KvChCap == 10

\* math.MaxUint64, at the modelled width
MaxUint64 == 2^RowBits - 1

NoErr == "nil"

\* math.Float32bits / math.Float32frombits on the fractions a batch carries
Fractions == {"0.0", "0.5", "1.0"}

Float32bits(f) ==
  CASE f = "0.0" -> 0
    [] f = "0.5" -> 1056964608
    [] f = "1.0" -> 1065353216

Float32frombits(b) ==
  CASE b = 0 -> "0.0"
    [] b = 1056964608 -> "0.5"
    [] b = 1065353216 -> "1.0"

(* ------------------------------- keys --------------------------------- *)
\* A key is <<table id, index id>>; table id 0 stands for a key that carries
\* no table prefix, which sqlbase.DecodeTableIDIndexID rejects.
DecodeOK(key) == key[1] # 0

DecodeIndexID(key) == key[2]

\* keys.IsDescriptorKey: the key lies in the descriptor table (id 3)
IsDescriptorKey(key) == key[1] = 3

\* byte-wise order of keys
KeyLess(a, b) == a[1] < b[1] \/ (a[1] = b[1] /\ a[2] < b[2])

\* roachpb.SpanGroup.Contains: some span [Key, EndKey) holds the key
Contains(spans, key) ==
  \E s \in spans : ~KeyLess(key, s.Key) /\ KeyLess(key, s.EndKey)

\* the KVs a converter emits in direct-ingest runs and in sampling runs
DirectKVs == [key : {<<0, 1>>, <<4, 1>>, <<4, 2>>}, val : {<<7>>}]

SampleKVs == [key : {<<3, 1>>, <<4, 1>>, <<5, 1>>}, val : {<<7>>, <<7, 7>>}]

SeqsUpTo(S, n) == UNION {[1..k -> S] : k \in 0..n}

\* the KVs of a sequence, as a bag
RECURSIVE BagOfSeq(_)
BagOfSeq(kvs) ==
  IF kvs = <<>> THEN EmptyBag
  ELSE SetToBag({Head(kvs)}) (+) BagOfSeq(Tail(kvs))

AdderNames == {"pkAdder", "indexAdder"}

VARIABLES
  IngestDirectly,   \* spec.IngestDirectly
  nFiles,           \* len(spec.Uri)
  SampleSize,       \* spec.SampleSize
  SpanProgress,     \* the job's completed spans
  offsets,          \* ingestKvs: file id -> slot of the progress slices
  faultBudget,      \* the failures one run may see
  cancelled,        \* the context given to Run is cancelled
  faults,           \* failures so far
  panicked,         \* a goroutine panicked: the process is gone
  runPc, output, producerDone, progClosed, summary, err,     \* Run
  riPc, groupErr, errLog,                                    \* runImport
  rdPc, rdErr, inputFinishedCalls, emitted, emittedRow, sent, \* reader task
  strictRows,       \* every batch with KVs had a LastRow above the earlier ones of its file
  cvPc, kvCh, kvCloses, kvClosedBy,                          \* converter, kvCh
  ikPc, ikErr, ikSummary, adder, gErr, stopCloses, stopClosedBy,
  writtenRow, writtenFraction, pkFlushedRow, idxFlushedRow,  \* ingestKvs
  itPc, itBatch, itPos, itErr,                               \* ingest task
  rpPc, rpRec, ticks,                                        \* reporter task
  emPc, emBatch, emPos, completedSpans, emErr, emSeen,       \* emitKvs
  sinkStatus        \* what the sink answered to the last Push of emitKvs

VARIABLES
  gcName, gcHint,   \* the arguments of decompressingReader
  gcPc, gcResult,   \* what guessCompressionFromName returned
  gcReader          \* the reader decompressingReader built

gcVars == <<gcName, gcHint, gcPc, gcResult, gcReader>>

VARIABLES
  rfN, rfHasProgressFn, rfFormat, rfSaveRejected,  \* arguments of readInputFiles
  rfCancelled, rfFaults,        \* ctx.Done() is closed; collaborators that failed
  rfPc, rfErr,                  \* where readInputFiles is; what it returned
  rfProbed, rfTotalBytes, rfFileSizes,             \* the loop over Size()
  rfCurrentFile, rfVisited, rfCur,                 \* the loop over the files
  rfOpened, rfParsed, rfFinished,                  \* files opened, given to fileFunc, read
  rfCounterN, rfLastReported, rfReadBytes,         \* src.counter.n, lastReported, readBytes
  rfCalls, rfPcalls, rfFinishedArg,            \* the calls of progressFn; calls of wrappedProgressFn
  rfReads,                      \* bytes read from all files
  rjMade, rjCloses,             \* the channel rejected of the current file
  skPc, skBuf, skErr,           \* the task that collects the rejected rows
  psPc, psErr, psSent,          \* fileFunc
  grpErr,                       \* the group of the two tasks
  rfWrites                      \* the calls of WriteFile

rfCfg == <<rfN, rfHasProgressFn, rfFormat, rfSaveRejected>>
rfEnv == <<rfCancelled, rfFaults>>
rfProbe == <<rfProbed, rfTotalBytes, rfFileSizes>>
rfLoop == <<rfPc, rfErr, rfCurrentFile, rfVisited, rfCur, rfOpened, rfParsed, rfFinished>>
rfSrc == <<rfCounterN, rfLastReported, rfReadBytes, rfCalls, rfPcalls, rfFinishedArg, rfReads>>
rfRej == <<rjMade, rjCloses, skPc, skBuf, skErr, psPc, psErr, psSent, grpErr, rfWrites>>
rfVars == <<rfCfg, rfEnv, rfProbe, rfLoop, rfSrc, rfRej>>

VARIABLES
  lmLocks,          \* fm.locks: the lock stored for a key, 0 for none
  lmObjs,           \* the FakeLock objects made so far
  lmCalls,          \* the calls of the lock manager and where each of them is
  lmFinalized,      \* the transactions whose status is finalized
  lmSweeps,         \* the runs of unlockFinalized
  lmCrashed         \* a mutex was unlocked that was not locked

lmVars == <<lmLocks, lmObjs, lmCalls, lmFinalized, lmSweeps, lmCrashed>>

cfgVars == <<IngestDirectly, nFiles, SampleSize, SpanProgress, offsets, faultBudget>>
envVars == <<cancelled, faults, panicked>>
runVars == <<runPc, output, producerDone, progClosed, summary, err>>
riVars == <<riPc, groupErr, errLog>>
rdVars == <<rdPc, rdErr, inputFinishedCalls, emitted, emittedRow, sent, strictRows>>
cvVars == <<cvPc, kvCh, kvCloses, kvClosedBy>>
ikVars == <<ikPc, ikErr, ikSummary, adder, gErr, stopCloses, stopClosedBy>>
rowVars == <<writtenRow, writtenFraction, pkFlushedRow, idxFlushedRow>>
itVars == <<itPc, itBatch, itPos, itErr>>
rpVars == <<rpPc, rpRec, ticks>>
emVars == <<emPc, emBatch, emPos, completedSpans, emErr, emSeen, sinkStatus>>

imVars == <<cfgVars, envVars, runVars, riVars, rdVars, cvVars, ikVars, rowVars,
           itVars, rpVars, emVars>>

vars == <<imVars, gcVars, rfVars, lmVars>>

Files == 0..(nFiles - 1)

OffsetMaps(n) ==
  {p \in [0..(n - 1) -> 0..(n - 1)] : \A i, j \in 0..(n - 1) : p[i] = p[j] => i = j}

NoBatch == [Source |-> 0, KVs |-> <<>>, LastRow |-> 0, Progress |-> "0.0"]

NewAdder == [made |-> FALSE, closes |-> 0, buf |-> 0, flushed |-> 0, pending |-> {},
             adds |-> EmptyBag, flushes |-> 0, err |-> NoErr]

NoRecord == [CompletedRow |-> [f \in {} |-> 0], CompletedFraction |-> [f \in {} |-> "0.0"]]

SpanSets ==
  { {}, {[Key |-> <<4, 1>>, EndKey |-> <<5, 1>>]},
    {[Key |-> <<3, 1>>, EndKey |-> <<4, 1>>], [Key |-> <<5, 1>>, EndKey |-> <<5, 2>>]} }

\* an error of readInputFiles: the message and the URIs it was wrapped with,
\* the outermost first
RfNil == [msg |-> "nil", wraps |-> <<>>]

\* readInputFiles is not under study
RfIdle ==
  /\ rfN = 0 /\ rfHasProgressFn = FALSE /\ rfFormat = "CSV" /\ rfSaveRejected = FALSE
  /\ rfCancelled = FALSE /\ rfFaults = 0
  /\ rfPc = "idle" /\ rfErr = RfNil
  /\ rfProbed = {} /\ rfTotalBytes = 0 /\ rfFileSizes = <<>>
  /\ rfCurrentFile = 0 /\ rfVisited = {} /\ rfCur = 0
  /\ rfOpened = <<>> /\ rfParsed = <<>> /\ rfFinished = 0
  /\ rfCounterN = 0 /\ rfLastReported = 0 /\ rfReadBytes = 0
  /\ rfCalls = <<>> /\ rfPcalls = 0 /\ rfFinishedArg = FALSE /\ rfReads = 0
  /\ rjMade = FALSE /\ rjCloses = 0
  /\ skPc = "none" /\ skBuf = <<>> /\ skErr = RfNil
  /\ psPc = "none" /\ psErr = RfNil /\ psSent = 0
  /\ grpErr = RfNil
  /\ rfWrites = <<>>

\* decompressingReader is not under study
GcIdle ==
  /\ gcName = <<>> /\ gcHint = "Auto"
  /\ gcPc = "idle" /\ gcResult = "None" /\ gcReader = "none"

\* the keys that are locked
Keys == {"k1", "k2"}

\* NewFakeLockManager: no lock is stored, and nothing has been called
LmIdle ==
  /\ lmLocks = [k \in Keys |-> 0]
  /\ lmObjs = <<>> /\ lmCalls = <<>>
  /\ lmFinalized = {} /\ lmSweeps = 0 /\ lmCrashed = FALSE

InitCommon ==
  /\ nFiles \in 0..MaxFiles
  /\ cancelled = FALSE /\ faults = 0 /\ panicked = FALSE
  /\ runPc = "recv" /\ output = <<>> /\ producerDone = 0 /\ progClosed = FALSE
  /\ summary = -1 /\ err = NoErr
  /\ riPc = "conv" /\ groupErr = NoErr /\ errLog = <<>>
  /\ rdPc = "idle" /\ rdErr = NoErr /\ inputFinishedCalls = 0
  /\ emitted = 0 /\ emittedRow = [f \in 0..(nFiles - 1) |-> 0] /\ sent = EmptyBag
  /\ strictRows = TRUE
  /\ cvPc = "idle" /\ kvCh = <<>> /\ kvCloses = 0 /\ kvClosedBy = "nobody"
  /\ ikPc = "idle" /\ ikErr = NoErr /\ ikSummary = -1
  /\ adder = [a \in AdderNames |-> NewAdder]
  /\ gErr = NoErr /\ stopCloses = 0 /\ stopClosedBy = "nobody"
  /\ writtenRow = [i \in 0..(nFiles - 1) |-> 0]
  /\ writtenFraction = [i \in 0..(nFiles - 1) |-> 0]
  /\ pkFlushedRow = [i \in 0..(nFiles - 1) |-> 0]
  /\ idxFlushedRow = [i \in 0..(nFiles - 1) |-> 0]
  /\ itPc = "idle" /\ itBatch = NoBatch /\ itPos = 0 /\ itErr = NoErr
  /\ rpPc = "idle"
  /\ rpRec = NoRecord
  /\ ticks = 0
  /\ emPc = "idle" /\ emBatch = NoBatch /\ emPos = 0 /\ completedSpans = {}
  /\ emErr = NoErr /\ emSeen = <<>> /\ sinkStatus = "NeedMoreRows"

Init ==
  /\ IngestDirectly = TRUE
  /\ SampleSize = 0
  /\ SpanProgress = {}
  /\ InitCommon
  /\ offsets \in OffsetMaps(nFiles)
  /\ faultBudget = MaxFaults
  /\ GcIdle /\ RfIdle /\ LmIdle

(* ----------------------- contexts and error groups -------------------- *)
\* an error group that keeps the last error
Last(cur, e) == IF e = NoErr THEN cur ELSE e

\* errgroup keeps the first non-nil error a task returns
First(cur, e) == IF cur = NoErr THEN e ELSE cur

\* a task of runImport's group returns e; errLog lists the errors in the
\* order the tasks return them
TaskReturns(e) ==
  /\ groupErr' = First(groupErr, e)
  /\ errLog' = IF e = NoErr THEN errLog ELSE Append(errLog, e)

\* the context of runImport's group: cancelled with its parent, by the first
\* task error, and when Wait has returned
GroupCtxDone == cancelled \/ groupErr # NoErr \/ riPc = "done"

\* the context of ingestKvs's group g, a child of the former
IngestCtxDone == GroupCtxDone \/ gErr # NoErr

\* the caller's context is cancelled
Cancel ==
  /\ ~panicked
  /\ ~cancelled /\ faults < faultBudget /\ runPc # "done"
  /\ cancelled' = TRUE /\ faults' = faults + 1
  /\ UNCHANGED <<cfgVars, gcVars, rfVars, lmVars, panicked, runVars, riVars, rdVars, cvVars, ikVars,
                 rowVars, itVars, rpVars, emVars>>

(* --------------------- readImportDataProcessor.Run -------------------- *)
\* the metadata Run pushes for a record; `from` names the task that sent it
ProgressMeta(prog, from) == [kind |-> "progress", from |-> from, prog |-> prog]

\* progCh <- prog meets `for prog := range progCh { cp.output.Push(nil, ...) }`
\* (progCh is unbuffered)
SendProgress(prog, from) ==
  /\ runPc = "recv" /\ ~progClosed
  /\ output' = Append(output, ProgressMeta(prog, from))

\* Run that pushes the summary row whatever runImport returned
RunFinishAlwaysPushesRow ==
  /\ ~panicked
  /\ runPc = "recv" /\ progClosed
  /\ output' = Append(output, [kind |-> "row", row |-> <<summary, <<>>>>])
  /\ producerDone' = producerDone + 1
  /\ runPc' = "done"
  /\ UNCHANGED <<cfgVars, gcVars, rfVars, lmVars, envVars, progClosed, summary, err, riVars, rdVars,
                 cvVars, ikVars, rowVars, itVars, rpVars, emVars>>

\* after the loop over progCh: the error, or the summary row, and ProducerDone
RunFinish ==
  /\ ~panicked
  /\ runPc = "recv" /\ progClosed
  /\ output' =
       IF err # NoErr THEN Append(output, [kind |-> "error", err |-> err])
       ELSE IF summary = -1 THEN output
       ELSE Append(output, [kind |-> "row", row |-> <<summary, <<>>>>])
  /\ producerDone' = producerDone + 1
  /\ runPc' = "done"
  /\ UNCHANGED <<cfgVars, gcVars, rfVars, lmVars, envVars, progClosed, summary, err, riVars, rdVars,
                 cvVars, ikVars, rowVars, itVars, rpVars, emVars>>

\* protoutil.Marshal(summary) fails: Run pushes that error and no row
RunMarshalFails ==
  /\ ~panicked
  /\ runPc = "recv" /\ progClosed
  /\ err = NoErr /\ summary # -1
  /\ faults < faultBudget
  /\ faults' = faults + 1
  /\ err' = "Marshal"
  /\ output' = Append(output, [kind |-> "error", err |-> "Marshal"])
  /\ producerDone' = producerDone + 1
  /\ runPc' = "done"
  /\ UNCHANGED <<cfgVars, gcVars, rfVars, lmVars, cancelled, panicked, progClosed, summary, riVars, rdVars,
                 cvVars, ikVars, rowVars, itVars, rpVars, emVars>>

(* ------------------------------ runImport ----------------------------- *)
\* makeInputConverter fails: runImport returns (nil, err); Run's goroutine
\* stores the result and closes progCh
RunImportNoConverter ==
  /\ ~panicked
  /\ riPc = "conv" /\ faults < faultBudget
  /\ faults' = faults + 1
  /\ riPc' = "done" /\ summary' = -1 /\ err' = "makeInputConverter"
  /\ progClosed' = TRUE
  /\ UNCHANGED <<cfgVars, gcVars, rfVars, lmVars, cancelled, panicked, runPc, output, producerDone,
                 groupErr, errLog, rdVars, cvVars, ikVars, rowVars, itVars, rpVars,
                 emVars>>

\* conv.start(group), the reader task and the ingestor or the sampler task
RunImportStart ==
  /\ ~panicked
  /\ riPc = "conv"
  /\ riPc' = "wait"
  /\ cvPc' = "run"
  /\ rdPc' = "read"
  /\ IF IngestDirectly
       THEN ikPc' = "mkPk" /\ emPc' = emPc
       ELSE emPc' = "load" /\ ikPc' = ikPc
  /\ UNCHANGED <<cfgVars, gcVars, rfVars, lmVars, envVars, runVars, groupErr, errLog, rdErr, inputFinishedCalls,
                 emitted, emittedRow, sent, strictRows, kvCh, kvCloses, kvClosedBy, ikErr, ikSummary, adder, gErr,
                 stopCloses, stopClosedBy, rowVars, itVars, rpVars, emBatch,
                 emPos, completedSpans, emErr, emSeen, sinkStatus>>

ConsumerDone == IF IngestDirectly THEN ikPc = "done" ELSE emPc = "done"

\* group.Wait returns once every task has returned; runImport returns and
\* Run's goroutine closes progCh
RunImportWait ==
  /\ ~panicked
  /\ riPc = "wait"
  /\ rdPc = "done" /\ cvPc = "done" /\ ConsumerDone
  /\ riPc' = "done"
  /\ err' = groupErr
  /\ summary' = IF groupErr # NoErr THEN -1 ELSE ikSummary
  /\ progClosed' = TRUE
  /\ UNCHANGED <<cfgVars, gcVars, rfVars, lmVars, envVars, runPc, output, producerDone, groupErr, errLog, rdVars,
                 cvVars, ikVars, rowVars, itVars, rpVars, emVars>>

(* ---------------------- the reader task, converter -------------------- *)
KVChoices == IF IngestDirectly THEN DirectKVs ELSE SampleKVs

\* the batches the converter may emit; emitKvs reads nothing but the KVs of a
\* batch, so a sampling run leaves the other fields at one value
BatchChoices ==
  [Source : Files, KVs : SeqsUpTo(KVChoices, MaxKVs),
   LastRow : IF IngestDirectly THEN 0..MaxRow ELSE {0},
   Progress : IF IngestDirectly THEN {"0.5", "1.0"} ELSE {"0.5"}]

\* inputFinished is called on the success path only
ReaderReturnSkipsInputFinished(e) ==
  /\ inputFinishedCalls' = IF e = NoErr THEN inputFinishedCalls + 1 ELSE inputFinishedCalls
  /\ rdPc' = "done"
  /\ rdErr' = e
  /\ TaskReturns(e)

\* the task returns e to the group; its deferred conv.inputFinished(ctx) runs
ReaderReturn(e) ==
  /\ inputFinishedCalls' = inputFinishedCalls + 1
  /\ rdPc' = "done"
  /\ rdErr' = e
  /\ TaskReturns(e)

\* LoadJob returns an error (before anything is read), or readFiles does
ReaderFails ==
  /\ ~panicked
  /\ rdPc = "read" /\ faults < faultBudget
  /\ faults' = faults + 1
  /\ \E e \in (IF emitted = 0 THEN {"LoadJob", "readFiles"} ELSE {"readFiles"}) :
       ReaderReturn(e)
  /\ UNCHANGED <<cfgVars, gcVars, rfVars, lmVars, cancelled, panicked, runVars, riPc, emitted, emittedRow, sent, strictRows, cvVars,
                 ikVars, rowVars, itVars, rpVars, emVars>>

\* LoadJob or readFiles observes the cancelled context
ReaderCancelled ==
  /\ ~panicked
  /\ rdPc = "read" /\ GroupCtxDone
  /\ ReaderReturn("context canceled")
  /\ UNCHANGED <<cfgVars, gcVars, rfVars, lmVars, envVars, runVars, riPc, emitted, emittedRow, sent, strictRows, cvVars, ikVars, rowVars,
                 itVars, rpVars, emVars>>

\* readFiles: the converter sends a batch on kvCh; the row watermark of a
\* file never goes back
ConverterEmit ==
  /\ ~panicked
  /\ rdPc = "read" /\ emitted < MaxBatches /\ Len(kvCh) < KvChCap
  /\ \E b \in BatchChoices :
       /\ b.LastRow >= emittedRow[b.Source]
       /\ kvCh' = Append(kvCh, b)
       /\ emitted' = emitted + 1
       /\ emittedRow' = [emittedRow EXCEPT ![b.Source] = b.LastRow]
       /\ strictRows' = (strictRows /\ (b.KVs = <<>> \/ b.LastRow > emittedRow[b.Source]))
       /\ sent' = sent (+) BagOfSeq(b.KVs)
  /\ UNCHANGED <<cfgVars, gcVars, rfVars, lmVars, envVars, runVars, riVars, rdPc, rdErr,
                 inputFinishedCalls, cvPc, kvCloses, kvClosedBy, ikVars, rowVars,
                 itVars, rpVars, emVars>>

\* readFiles returns nil
ReaderDone ==
  /\ ~panicked
  /\ rdPc = "read"
  /\ ReaderReturn(NoErr)
  /\ UNCHANGED <<cfgVars, gcVars, rfVars, lmVars, envVars, runVars, riPc, emitted, emittedRow, sent, strictRows, cvVars, ikVars, rowVars,
                 itVars, rpVars, emVars>>

\* the converter closes kvCh once its input is finished
ConverterClose ==
  /\ ~panicked
  /\ cvPc = "run" /\ inputFinishedCalls > 0
  /\ kvCloses' = kvCloses + 1
  /\ kvClosedBy' = "converter"
  /\ cvPc' = "done"
  /\ UNCHANGED <<cfgVars, gcVars, rfVars, lmVars, envVars, runVars, riVars, rdVars, kvCh, ikVars,
                 rowVars, itVars, rpVars, emVars>>

(* ------------------------- the two bulk adders ------------------------ *)
\* BulkAdder.Add buffers the KV
Buffered(a, kv) == [a EXCEPT !.buf = @ + 1, !.adds = @ (+) SetToBag({kv})]

\* the file and the LastRow of the batch of a buffered KV are remembered
\* until the adder writes its buffer out
OfBatch(a, batch) == [a EXCEPT !.pending = @ \cup {<<batch.Source, batch.LastRow>>}]

\* a call of Add that returns an error
Refused(a, kv) == [a EXCEPT !.adds = @ (+) SetToBag({kv})]

\* the adder writes its buffer out
Flushed(a) == [a EXCEPT !.flushed = @ + a.buf, !.buf = 0, !.pending = {}]

IsEmpty(a) == a.buf = 0

\* BulkAdder.GetSummary: what the adder has written
GetSummary(a) == a.flushed

\* a call of Add or Flush returns the error e
Reported(a, e) == [a EXCEPT !.err = e]

\* every duplicate is said to be in the primary index
WrapDuplicateAsPrimary(name, e) ==
  IF e = "DuplicateKeyError" THEN "duplicate key in primary index" ELSE e

\* ingestKvs wraps a DuplicateKeyError with the index it came from
WrapDuplicate(name, e) ==
  IF e = "DuplicateKeyError"
    THEN IF name = "pkAdder" THEN "duplicate key in primary index"
         ELSE "duplicate key in index"
    ELSE e

AdderErrors == {"DuplicateKeyError", "AddSSTable"}

(* -------------------- ingestKvs: the flush hooks ---------------------- *)
\* `for _, i := range writtenRow`: i runs over the VALUES of writtenRow
HookIndexes(wr) == {wr[j] : j \in DOMAIN wr}

\* pkFlushedRow[i], writtenRow[i] with i past the end of the slices
HookPanics(wr) == \E i \in HookIndexes(wr) : i \notin DOMAIN wr

\* a hook that records the row after the one written
StoreRowsAhead(flushedRow, wr) ==
  [i \in DOMAIN flushedRow |-> IF i \in HookIndexes(wr) THEN wr[i] + 1 ELSE flushedRow[i]]

\* atomic.StoreUint64(&flushedRow[i], writtenRow[i]) for each such i
StoreRows(flushedRow, wr) ==
  [i \in DOMAIN flushedRow |-> IF i \in HookIndexes(wr) THEN wr[i] ELSE flushedRow[i]]

\* the callbacks given to pkIndexAdder.SetOnFlush and indexAdder.SetOnFlush
OnFlush(name) ==
  IF name = "pkAdder"
    THEN /\ pkFlushedRow' = StoreRows(pkFlushedRow, writtenRow)
         /\ idxFlushedRow' = IF IsEmpty(adder["indexAdder"])
                               THEN StoreRows(idxFlushedRow, writtenRow)
                               ELSE idxFlushedRow
    ELSE /\ idxFlushedRow' = StoreRows(idxFlushedRow, writtenRow)
         /\ pkFlushedRow' = pkFlushedRow

\* an unrecovered panic in a goroutine ends the process
Panic ==
  /\ panicked' = TRUE
  /\ UNCHANGED <<cfgVars, gcVars, rfVars, lmVars, cancelled, faults, runVars, riVars, rdVars, cvVars,
                 ikVars, rowVars, itVars, rpVars, emVars>>

(* ----------------------- ingestKvs: the function ---------------------- *)
\* only the PK adder's Close is deferred
ClosePkOnly(ad) ==
  [a \in AdderNames |->
     IF ad[a].made /\ a = "pkAdder" THEN [ad[a] EXCEPT !.closes = @ + 1] ELSE ad[a]]

\* the deferred pkIndexAdder.Close and indexAdder.Close
CloseAdders(ad) ==
  [a \in AdderNames |-> IF ad[a].made THEN [ad[a] EXCEPT !.closes = @ + 1] ELSE ad[a]]

\* ingestKvs returns (s, e), running its deferred calls
IngestReturn(s, e) ==
  /\ ikSummary' = s /\ ikErr' = e
  /\ adder' = CloseAdders(adder)
  /\ ikPc' = "returned"

\* flowCtx.Cfg.BulkAdder for the PK adder
IngestMakePkAdder ==
  /\ ~panicked
  /\ ikPc = "mkPk"
  /\ adder' = [adder EXCEPT !["pkAdder"].made = TRUE]
  /\ ikPc' = "mkIdx"
  /\ UNCHANGED <<cfgVars, gcVars, rfVars, lmVars, envVars, runVars, riVars, rdVars, cvVars, ikErr,
                 ikSummary, gErr, stopCloses, stopClosedBy, rowVars, itVars,
                 rpVars, emVars>>

\* flowCtx.Cfg.BulkAdder for the index adder, the progress slices, the hooks
\* and the two tasks of g
IngestMakeIndexAdder ==
  /\ ~panicked
  /\ ikPc = "mkIdx"
  /\ adder' = [adder EXCEPT !["indexAdder"].made = TRUE]
  /\ ikPc' = "wait"
  /\ rpPc' = "select"
  /\ itPc' = "recv"
  /\ UNCHANGED <<cfgVars, gcVars, rfVars, lmVars, envVars, runVars, riVars, rdVars, cvVars, ikErr,
                 ikSummary, gErr, stopCloses, stopClosedBy, rowVars, itBatch,
                 itPos, itErr, rpRec, ticks, emVars>>

\* flowCtx.Cfg.BulkAdder returns an error
IngestMakeAdderFails ==
  /\ ~panicked
  /\ ikPc \in {"mkPk", "mkIdx"} /\ faults < faultBudget
  /\ faults' = faults + 1
  /\ IngestReturn(-1, "BulkAdder")
  /\ UNCHANGED <<cfgVars, gcVars, rfVars, lmVars, cancelled, panicked, runVars, riVars, rdVars, cvVars,
                 gErr, stopCloses, stopClosedBy, rowVars, itVars, rpVars, emVars>>

\* a g.Wait that would wait for the ingest task alone
IngestWaitForIngestTask ==
  /\ ~panicked
  /\ ikPc = "wait" /\ itPc = "done"
  /\ IF gErr # NoErr
       THEN IngestReturn(-1, gErr)
       ELSE ikPc' = "flushPk" /\ UNCHANGED <<ikSummary, ikErr, adder>>
  /\ UNCHANGED <<cfgVars, gcVars, rfVars, lmVars, envVars, runVars, riVars, rdVars, cvVars, gErr,
                 stopCloses, stopClosedBy, rowVars, itVars, rpVars, emVars>>

\* g.Wait returns: with an error ingestKvs returns it, else it goes on to flush
IngestWait ==
  /\ ~panicked
  /\ ikPc = "wait" /\ itPc = "done" /\ rpPc = "done"
  /\ IF gErr # NoErr
       THEN IngestReturn(-1, gErr)
       ELSE ikPc' = "flushPk" /\ UNCHANGED <<ikSummary, ikErr, adder>>
  /\ UNCHANGED <<cfgVars, gcVars, rfVars, lmVars, envVars, runVars, riVars, rdVars, cvVars, gErr,
                 stopCloses, stopClosedBy, rowVars, itVars, rpVars, emVars>>

FlushTarget == IF ikPc = "flushPk" THEN "pkAdder" ELSE "indexAdder"

\* pkIndexAdder.Flush, then indexAdder.Flush: the adder writes its buffer and
\* calls its hook
IngestFlush ==
  /\ ~panicked
  /\ ikPc \in {"flushPk", "flushIdx"}
  /\ IF HookPanics(writtenRow) THEN Panic
     ELSE /\ adder' = [adder EXCEPT ![FlushTarget] =
                         [Flushed(@) EXCEPT !.flushes = @ + 1]]
          /\ OnFlush(FlushTarget)
          /\ ikPc' = IF ikPc = "flushPk" THEN "flushIdx" ELSE "summary"
          /\ UNCHANGED <<cfgVars, gcVars, rfVars, lmVars, envVars, runVars, riVars, rdVars, cvVars,
                         ikErr, ikSummary, gErr, stopCloses, stopClosedBy,
                         writtenRow, writtenFraction, itVars, rpVars, emVars>>

\* Flush returns an error
IngestFlushFails ==
  /\ ~panicked
  /\ ikPc \in {"flushPk", "flushIdx"} /\ faults < faultBudget
  /\ faults' = faults + 1
  /\ \E e \in AdderErrors :
       /\ ikSummary' = -1 /\ ikErr' = WrapDuplicate(FlushTarget, e)
       /\ adder' = CloseAdders([adder EXCEPT ![FlushTarget] = Reported(@, e)])
       /\ ikPc' = "returned"
  /\ UNCHANGED <<cfgVars, gcVars, rfVars, lmVars, cancelled, panicked, runVars, riVars, rdVars, cvVars,
                 gErr, stopCloses, stopClosedBy, rowVars, itVars, rpVars, emVars>>

\* the summary of the PK adder alone is returned
IngestSummaryPkOnly ==
  /\ ~panicked
  /\ ikPc = "summary"
  /\ IngestReturn(GetSummary(adder["pkAdder"]), NoErr)
  /\ UNCHANGED <<cfgVars, gcVars, rfVars, lmVars, envVars, runVars, riVars, rdVars, cvVars, gErr,
                 stopCloses, stopClosedBy, rowVars, itVars, rpVars, emVars>>

\* addedSummary := pkIndexAdder.GetSummary(); addedSummary.Add(indexAdder.GetSummary())
IngestSummary ==
  /\ ~panicked
  /\ ikPc = "summary"
  /\ IngestReturn(GetSummary(adder["pkAdder"]) + GetSummary(adder["indexAdder"]), NoErr)
  /\ UNCHANGED <<cfgVars, gcVars, rfVars, lmVars, envVars, runVars, riVars, rdVars, cvVars, gErr,
                 stopCloses, stopClosedBy, rowVars, itVars, rpVars, emVars>>

\* a final record that would report no row
FinalProgressOfNothing ==
  [CompletedRow |-> [i \in Files |-> 0],
   CompletedFraction |-> [i \in Files |-> "1.0"]]

\* runImport's ingestor task after ingestKvs: the error, or the final record
FinalProgress ==
  [CompletedRow |-> [i \in Files |-> MaxUint64],
   CompletedFraction |-> [i \in Files |-> "1.0"]]

IngestorFails ==
  /\ ~panicked
  /\ ikPc = "returned" /\ ikErr # NoErr
  /\ TaskReturns(ikErr)
  /\ ikPc' = "done"
  /\ UNCHANGED <<cfgVars, gcVars, rfVars, lmVars, envVars, runVars, riPc, rdVars, cvVars, ikErr,
                 ikSummary, adder, gErr, stopCloses, stopClosedBy, rowVars,
                 itVars, rpVars, emVars>>

IngestorSendsFinal ==
  /\ ~panicked
  /\ ikPc = "returned" /\ ikErr = NoErr
  /\ SendProgress(FinalProgress, "runImport")
  /\ ikPc' = "done"
  /\ UNCHANGED <<cfgVars, gcVars, rfVars, lmVars, envVars, runPc, producerDone, progClosed, summary, err,
                 riVars, rdVars, cvVars, ikErr, ikSummary, adder, gErr,
                 stopCloses, stopClosedBy, rowVars, itVars, rpVars, emVars>>

(* ---------------------- ingestKvs: the ingest task -------------------- *)
\* a router that sends every KV to the PK adder
RouteAllToPk(kv) == "pkAdder"

\* the adder a KV goes to: `if indexID == 1`
Route(kv) == IF DecodeIndexID(kv.key) = 1 THEN "pkAdder" ELSE "indexAdder"

\* the task returns e and leaves stopProgress open
IngestTaskReturnLeavesOpen(e) ==
  /\ itPc' = "done"
  /\ itErr' = e
  /\ gErr' = First(gErr, e)
  /\ UNCHANGED <<stopCloses, stopClosedBy>>

\* the task returns e; its deferred close(stopProgress) runs
IngestTaskReturn(e) ==
  /\ itPc' = "done"
  /\ itErr' = e
  /\ gErr' = First(gErr, e)
  /\ stopCloses' = stopCloses + 1
  /\ stopClosedBy' = "ingest task"

\* `for kvBatch := range kvCh` receives a batch
IngestRecv ==
  /\ ~panicked
  /\ itPc = "recv" /\ kvCh # <<>>
  /\ itBatch' = Head(kvCh) /\ kvCh' = Tail(kvCh)
  /\ itPos' = 1 /\ itPc' = "kv"
  /\ UNCHANGED <<cfgVars, gcVars, rfVars, lmVars, envVars, runVars, riVars, rdVars, cvPc, kvCloses,
                 kvClosedBy, ikVars, rowVars, itErr, rpVars, emVars>>

\* kvCh is closed and empty: the loop ends and the task returns nil
IngestChannelClosed ==
  /\ ~panicked
  /\ itPc = "recv" /\ kvCh = <<>> /\ kvCloses > 0
  /\ IngestTaskReturn(NoErr)
  /\ UNCHANGED <<cfgVars, gcVars, rfVars, lmVars, envVars, runVars, riVars, rdVars, cvVars, ikPc, ikErr,
                 ikSummary, adder, rowVars, itBatch, itPos, rpVars, emVars>>

CurrentKV == itBatch.KVs[itPos]

\* sqlbase.DecodeTableIDIndexID fails: the task returns indexErr
IngestDecodeFails ==
  /\ ~panicked
  /\ itPc = "kv" /\ itPos <= Len(itBatch.KVs)
  /\ ~DecodeOK(CurrentKV.key)
  /\ IngestTaskReturn("DecodeTableIDIndexID")
  /\ UNCHANGED <<cfgVars, gcVars, rfVars, lmVars, envVars, runVars, riVars, rdVars, cvVars, ikPc, ikErr,
                 ikSummary, adder, rowVars, itBatch, itPos, rpVars, emVars>>

\* Add buffers the KV; a full adder first writes its buffer out and calls its hook
IngestAdd ==
  /\ ~panicked
  /\ itPc = "kv" /\ itPos <= Len(itBatch.KVs)
  /\ DecodeOK(CurrentKV.key)
  /\ \E flushFirst \in BOOLEAN :
       /\ flushFirst => ~IsEmpty(adder[Route(CurrentKV)])
       /\ IF flushFirst /\ HookPanics(writtenRow) THEN Panic
          ELSE /\ adder' = [adder EXCEPT ![Route(CurrentKV)] =
                              OfBatch(Buffered(IF flushFirst THEN Flushed(@) ELSE @,
                                               CurrentKV), itBatch)]
               /\ IF flushFirst THEN OnFlush(Route(CurrentKV))
                  ELSE UNCHANGED <<pkFlushedRow, idxFlushedRow>>
               /\ itPos' = itPos + 1
               /\ UNCHANGED <<cfgVars, gcVars, rfVars, lmVars, envVars, runVars, riVars, rdVars, cvVars,
                              ikPc, ikErr, ikSummary, gErr, stopCloses,
                              stopClosedBy, writtenRow, writtenFraction, itPc,
                              itBatch, itErr, rpVars, emVars>>

\* Add returns an error: the task returns it, a duplicate key wrapped
IngestAddFails ==
  /\ ~panicked
  /\ itPc = "kv" /\ itPos <= Len(itBatch.KVs)
  /\ DecodeOK(CurrentKV.key)
  /\ faults < faultBudget
  /\ faults' = faults + 1
  /\ \E e \in AdderErrors :
       /\ adder' = [adder EXCEPT ![Route(CurrentKV)] = Reported(Refused(@, CurrentKV), e)]
       /\ IngestTaskReturn(WrapDuplicate(Route(CurrentKV), e))
  /\ UNCHANGED <<cfgVars, gcVars, rfVars, lmVars, cancelled, panicked, runVars, riVars, rdVars, cvVars,
                 ikPc, ikErr, ikSummary, rowVars, itBatch, itPos,
                 rpVars, emVars>>

\* after the KVs of the batch: writtenRow[offset] = kvBatch.LastRow and the
\* atomic store of writtenFraction[offset]
IngestBatchDone ==
  /\ ~panicked
  /\ itPc = "kv" /\ itPos > Len(itBatch.KVs)
  /\ writtenRow' = [writtenRow EXCEPT ![offsets[itBatch.Source]] = itBatch.LastRow]
  /\ writtenFraction' = [writtenFraction EXCEPT ![offsets[itBatch.Source]] =
                           Float32bits(itBatch.Progress)]
  /\ itPc' = "recv"
  /\ UNCHANGED <<cfgVars, gcVars, rfVars, lmVars, envVars, runVars, riVars, rdVars, cvVars, ikVars,
                 pkFlushedRow, idxFlushedRow, itBatch, itPos, itErr, rpVars,
                 emVars>>

(* --------------------- ingestKvs: the reporter task ------------------- *)
\* `case <-done: return ctx.Err()`
ReporterCancelled ==
  /\ ~panicked
  /\ rpPc = "select" /\ IngestCtxDone
  /\ rpPc' = "done"
  /\ gErr' = First(gErr, "context canceled")
  /\ UNCHANGED <<cfgVars, gcVars, rfVars, lmVars, envVars, runVars, riVars, rdVars, cvVars, ikPc, ikErr,
                 ikSummary, adder, stopCloses, stopClosedBy, rowVars, itVars,
                 rpRec, ticks, emVars>>

\* `case <-stopProgress: return nil`
ReporterStopped ==
  /\ ~panicked
  /\ rpPc = "select" /\ stopCloses > 0
  /\ rpPc' = "done"
  /\ UNCHANGED <<cfgVars, gcVars, rfVars, lmVars, envVars, runVars, riVars, rdVars, cvVars, ikVars,
                 rowVars, itVars, rpRec, ticks, emVars>>

\* a reporter that would take the larger of the two flushed rows
CompletedRowOfFastest(pk, idx) == IF idx > pk THEN idx ELSE pk

\* `if idx > pk { ...= pk } else { ...= idx }`
CompletedRowOf(pk, idx) == IF idx > pk THEN pk ELSE idx

\* `case <-tick.C`: the record, from atomic loads of pkFlushedRow[offset],
\* idxFlushedRow[offset] and writtenFraction[offset] for every file
ReporterTick ==
  /\ ~panicked
  /\ rpPc = "select" /\ ticks < MaxTicks
  /\ ticks' = ticks + 1
  /\ rpRec' =
       [CompletedRow |->
          [file \in Files |->
             CompletedRowOf(pkFlushedRow[offsets[file]], idxFlushedRow[offsets[file]])],
        CompletedFraction |->
          [file \in Files |-> Float32frombits(writtenFraction[offsets[file]])]]
  /\ rpPc' = "send"
  /\ UNCHANGED <<cfgVars, gcVars, rfVars, lmVars, envVars, runVars, riVars, rdVars, cvVars, ikVars,
                 rowVars, itVars, emVars>>

\* progCh <- prog
ReporterSend ==
  /\ ~panicked
  /\ rpPc = "send"
  /\ SendProgress(rpRec, "reporter")
  /\ rpPc' = "select"
  /\ UNCHANGED <<cfgVars, gcVars, rfVars, lmVars, envVars, runPc, producerDone, progClosed, summary, err,
                 riVars, rdVars, cvVars, ikVars, rowVars, itVars, rpRec, ticks, emVars>>

(* ------------------------------- emitKvs ----------------------------- *)
\* sampleRate.sample: prob := sz / sampleSize; prob > rnd.Float64(), for the
\* draw d / DrawSteps
Sample(kv, sampleSize, d) ==
  (Len(kv.key) + Len(kv.val)) * DrawSteps > d * sampleSize

\* descriptor keys get no special treatment
RowRequiredIfSampleAll(kv) == SampleSize = 0

\* `sampleAll || keys.IsDescriptorKey(kv.Key)`
RowRequired(kv) == SampleSize = 0 \/ IsDescriptorKey(kv.key)

\* the value is never sent
RowOfKeyOnly(kv, required) == <<kv.key, <<>>>>

\* the row pushed for a KV: both columns, or the key and empty bytes
RowOf(kv, required) == IF required THEN <<kv.key, kv.val>> ELSE <<kv.key, <<>>>>

\* emitKvs returns e to runImport's group
EmitReturn(e) ==
  /\ emPc' = "done"
  /\ emErr' = e
  /\ TaskReturns(e)

\* LoadJob and the completed spans of the job's progress
EmitLoadJob ==
  /\ ~panicked
  /\ emPc = "load"
  /\ completedSpans' = SpanProgress
  /\ emPc' = "recv"
  /\ UNCHANGED <<cfgVars, gcVars, rfVars, lmVars, envVars, runVars, riVars, rdVars, cvVars, ikVars,
                 rowVars, itVars, rpVars, emBatch, emPos, emErr, emSeen, sinkStatus>>

\* LoadJob fails, or the progress is not an import progress
EmitLoadJobFails ==
  /\ ~panicked
  /\ emPc = "load" /\ faults < faultBudget
  /\ faults' = faults + 1
  /\ \E e \in {"LoadJob", "unexpected progress type"} : EmitReturn(e)
  /\ UNCHANGED <<cfgVars, gcVars, rfVars, lmVars, cancelled, panicked, runVars, riPc, rdVars, cvVars,
                 ikVars, rowVars, itVars, rpVars, emBatch, emPos, completedSpans,
                 emSeen, sinkStatus>>

\* `for kvBatch := range kvCh` receives a batch
EmitRecv ==
  /\ ~panicked
  /\ emPc = "recv" /\ kvCh # <<>>
  /\ emBatch' = Head(kvCh) /\ kvCh' = Tail(kvCh)
  /\ emSeen' = emSeen \o Head(kvCh).KVs
  /\ emPos' = 1 /\ emPc' = "kv"
  /\ UNCHANGED <<cfgVars, gcVars, rfVars, lmVars, envVars, runVars, riVars, rdVars, cvPc, kvCloses,
                 kvClosedBy, ikVars, rowVars, itVars, rpVars, completedSpans,
                 emErr, sinkStatus>>

\* kvCh is closed and empty: emitKvs returns nil
EmitChannelClosed ==
  /\ ~panicked
  /\ emPc = "recv" /\ kvCh = <<>> /\ kvCloses > 0
  /\ EmitReturn(NoErr)
  /\ UNCHANGED <<cfgVars, gcVars, rfVars, lmVars, envVars, runVars, riPc, rdVars, cvVars, ikVars,
                 rowVars, itVars, rpVars, emBatch, emPos, completedSpans, emSeen, sinkStatus>>

EmitKV == emBatch.KVs[emPos]

\* completed spans are not looked at
ForwardedAnywhere(kv, d) == RowRequired(kv) \/ Sample(kv, SampleSize, d)

\* the KV is pushed: it is required, or the sample function accepts it for draw d
Forwarded(kv, d) ==
  /\ ~Contains(completedSpans, kv.key)
  /\ RowRequired(kv) \/ Sample(kv, SampleSize, d)

\* one KV of the batch: dropped, or pushed to a sink that needs more rows
EmitOne ==
  /\ ~panicked
  /\ emPc = "kv" /\ emPos <= Len(emBatch.KVs)
  /\ \E d \in 0..(DrawSteps - 1) :
       IF Forwarded(EmitKV, d)
         THEN /\ output' = Append(output, [kind |-> "row",
                                           row |-> RowOf(EmitKV, RowRequired(EmitKV))])
              /\ sinkStatus' = "NeedMoreRows"
         ELSE UNCHANGED <<output, sinkStatus>>
  /\ emPos' = emPos + 1
  /\ UNCHANGED <<cfgVars, gcVars, rfVars, lmVars, envVars, runPc, producerDone, progClosed, summary, err,
                 riVars, rdVars, cvVars, ikVars, rowVars, itVars, rpVars, emPc,
                 emBatch, completedSpans, emErr, emSeen>>

\* the statuses of a sink that wants no more rows
ClosedStatuses == {"DrainRequested", "ConsumerClosed"}

\* after a refused Push emitKvs goes on with the next KV
EmitRefusedGoesOn ==
  /\ ~panicked
  /\ emPc = "kv" /\ emPos <= Len(emBatch.KVs)
  /\ faults < faultBudget
  /\ faults' = faults + 1
  /\ \E d \in 0..(DrawSteps - 1) :
       /\ Forwarded(EmitKV, d)
       /\ output' = Append(output, [kind |-> "row",
                                    row |-> RowOf(EmitKV, RowRequired(EmitKV))])
  /\ sinkStatus' \in ClosedStatuses
  /\ emPos' = emPos + 1
  /\ UNCHANGED <<cfgVars, gcVars, rfVars, lmVars, cancelled, panicked, runPc, producerDone, progClosed,
                 summary, err, riVars, rdVars, cvVars, ikVars, rowVars, itVars,
                 rpVars, emPc, emBatch, completedSpans, emErr, emSeen>>

\* the KV is pushed and the sink answers something else than NeedMoreRows
EmitRefused ==
  /\ ~panicked
  /\ emPc = "kv" /\ emPos <= Len(emBatch.KVs)
  /\ faults < faultBudget
  /\ faults' = faults + 1
  /\ \E d \in 0..(DrawSteps - 1) :
       /\ Forwarded(EmitKV, d)
       /\ output' = Append(output, [kind |-> "row",
                                    row |-> RowOf(EmitKV, RowRequired(EmitKV))])
  /\ sinkStatus' \in ClosedStatuses
  /\ EmitReturn("unexpected closure of consumer")
  /\ UNCHANGED <<cfgVars, gcVars, rfVars, lmVars, cancelled, panicked, runPc, producerDone, progClosed,
                 summary, err, riPc, rdVars, cvVars, ikVars, rowVars, itVars,
                 rpVars, emBatch, emPos, completedSpans, emSeen>>

\* the KVs of the batch are done: back to the channel
EmitBatchDone ==
  /\ ~panicked
  /\ emPc = "kv" /\ emPos > Len(emBatch.KVs)
  /\ emPc' = "recv"
  /\ UNCHANGED <<cfgVars, gcVars, rfVars, lmVars, envVars, runVars, riVars, rdVars, cvVars, ikVars,
                 rowVars, itVars, rpVars, emBatch, emPos, completedSpans, emErr,
                 emSeen, sinkStatus>>

(* ------------------------- the direct-ingest run ---------------------- *)
(* ----------- decompressingReader, guessCompressionFromName ------------ *)
\* A name is a sequence of tokens. "x" is any run of letters; ".gz", ".bz"
\* and ".bz2" are the extensions; "/", "?" and "#" are the delimiters of a
\* URI; "%3F" is the escape of "?"; "%" is a percent sign that starts no
\* escape; "s://h" is a scheme with the start of an authority and stands
\* only at the head of a name.
MaxNameLen == 3

BodyTokens == {"x", ".gz", ".bz", ".bz2", "/", "?", "#", "%3F", "%"}

Bodies == UNION {[1..n -> BodyTokens] : n \in 0..MaxNameLen}

Names == Bodies \cup {<<"s://h">> \o b : b \in Bodies}

Compressions == {"Auto", "None", "Gzip", "Bzip"}

HasSuffix(name, tok) == Len(name) > 0 /\ name[Len(name)] = tok

\* the index of the first token of toks in name, 0 when there is none
IndexAny(name, toks) ==
  IF \E i \in DOMAIN name : name[i] \in toks
    THEN CHOOSE i \in DOMAIN name :
           name[i] \in toks /\ \A j \in 1..(i - 1) : name[j] \notin toks
    ELSE 0

\* split(s, sep, cutc = true) of net/url: before and after the first sep
Before(name, toks) ==
  IF IndexAny(name, toks) = 0 THEN name ELSE SubSeq(name, 1, IndexAny(name, toks) - 1)

After(name, toks) ==
  IF IndexAny(name, toks) = 0 THEN <<>>
  ELSE SubSeq(name, IndexAny(name, toks) + 1, Len(name))

\* unescape of net/url: a percent sign that starts no escape is an error
Malformed(name) == \E i \in DOMAIN name : name[i] = "%"

Unescape(name) == [i \in DOMAIN name |-> IF name[i] = "%3F" THEN "?" ELSE name[i]]

\* a host does not unescape when it holds a percent sign, "%3F" included
BadHost(host) == \E i \in DOMAIN host : host[i] \in {"%", "%3F"}

\* url.Parse: the fragment is split off first and must unescape; then the
\* scheme and the query; an authority follows a scheme, or "//" that is not
\* "///", and runs up to the first "/"; what is left is the path, which
\* must unescape
UrlParse(name) ==
  LET u      == Before(name, {"#"})
      frag   == After(name, {"#"})
      scheme == Len(u) > 0 /\ u[1] = "s://h"
      rest   == Before(IF scheme THEN Tail(u) ELSE u, {"?"})
      slash2 == /\ ~scheme /\ Len(rest) >= 2
                /\ rest[1] = "/" /\ rest[2] = "/"
                /\ ~(Len(rest) >= 3 /\ rest[3] = "/")
      tail   == IF slash2 THEN SubSeq(rest, 3, Len(rest)) ELSE rest
      host   == IF scheme \/ slash2 THEN Before(tail, {"/"}) ELSE <<>>
      path   == IF scheme \/ slash2
                  THEN IF IndexAny(tail, {"/"}) = 0 THEN <<>>
                       ELSE SubSeq(tail, IndexAny(tail, {"/"}), Len(tail))
                  ELSE rest
  IN IF BadHost(host) \/ Malformed(path) \/ Malformed(frag)
       THEN [err |-> "invalid URL escape", Path |-> <<>>]
       ELSE [err |-> NoErr, Path |-> Unescape(path)]

\* guessCompressionFromName that never looks at the path of a URI
RECURSIVE GuessFromSuffixOnly(_, _)
GuessFromSuffixOnly(name, hint) ==
  IF hint # "Auto" THEN hint
  ELSE IF HasSuffix(name, ".gz") THEN "Gzip"
  ELSE IF HasSuffix(name, ".bz2") \/ HasSuffix(name, ".bz") THEN "Bzip"
  ELSE "None"

RECURSIVE guessCompressionFromName(_, _)
guessCompressionFromName(name, hint) ==
  IF hint # "Auto" THEN hint
  ELSE IF HasSuffix(name, ".gz") THEN "Gzip"
  ELSE IF HasSuffix(name, ".bz2") \/ HasSuffix(name, ".bz") THEN "Bzip"
  ELSE IF UrlParse(name).err = NoErr /\ UrlParse(name).Path # name
    THEN guessCompressionFromName(UrlParse(name).Path, hint)
  ELSE "None"

\* decompressingReader(in, name, hint)
DecompressingReader ==
  /\ gcPc = "call"
  /\ gcResult' = guessCompressionFromName(gcName, gcHint)
  /\ gcReader' = CASE gcResult' = "Gzip" -> "gzip.NewReader"
                   [] gcResult' = "Bzip" -> "bzip2.NewReader"
                   [] OTHER -> "ioutil.NopCloser"
  /\ gcPc' = "done"
  /\ UNCHANGED <<lmVars, gcName, gcHint, imVars, rfVars>>

\* the import does not run
ImportIdle ==
  /\ IngestDirectly = TRUE /\ SampleSize = 0 /\ SpanProgress = {}
  /\ InitCommon
  /\ nFiles = 0
  /\ offsets \in OffsetMaps(nFiles)
  /\ faultBudget = 0

InitGuess ==
  /\ ImportIdle /\ RfIdle /\ LmIdle
  /\ gcName \in Names /\ gcHint \in Compressions
  /\ gcPc = "call" /\ gcResult = "None" /\ gcReader = "none"

NextGuess == DecompressingReader

SpecGuess == InitGuess /\ [][NextGuess]_vars

(* ---------------------------- readInputFiles -------------------------- *)
MaxReadFiles == 3
\* the number of files when the rejected rows are saved
MaxRejectingFiles == 2
MaxSize == 2
MaxRejects == 2
MaxCalls == 2
MaxReads == 2

\* progressBytes, in the unit of the sizes of the model
ProgressBytes == 1

RfFiles == 1..rfN

\* dataFiles[id]
FileURI(id) == <<"s://h", "/", <<"f1", "f2", "f3", "f4", "f5">>[id]>>

\* the URI whose path is that of uri with ".rejected" appended
RejectedURI(uri) == uri \o <<".rejected">>

\* the k-th rejected row that fileFunc sends in this run
RejectedRow(k) == <<"r1", "r2", "r3", "r4">>[k]

RfError(m) == [msg |-> m, wraps |-> <<>>]

\* errors.Wrap(err, dataFile)
Wrap(e, uri) == IF e = RfNil THEN RfNil ELSE [e EXCEPT !.wraps = <<uri>> \o @]

RECURSIVE GCD(_, _)
GCD(a, b) == IF b = 0 THEN a ELSE GCD(b, a % b)

\* float32(a) / float32(b): the quotient, as a fraction in lowest terms
Div(a, b) == <<a \div GCD(a, b), b \div GCD(a, b)>>

updateFromFiles == rfHasProgressFn /\ rfTotalBytes = 0
updateFromBytes == rfHasProgressFn /\ rfTotalBytes > 0

\* readInputFiles returns e
RfReturn(e) == rfPc' = "done" /\ rfErr' = e

\* the caller cancels ctx
RfCancel ==
  /\ rfPc \notin {"idle", "done"} /\ ~rfCancelled
  /\ rfCancelled' = TRUE
  /\ UNCHANGED <<imVars, gcVars, lmVars, rfCfg, rfFaults, rfProbe, rfLoop, rfSrc, rfRej>>

\* one turn of the loop over Size(): a size that is not positive ends it
ProbeSize ==
  /\ rfPc = "probe"
  /\ \E id \in RfFiles \ rfProbed : \E sz \in 0..MaxSize :
       /\ rfProbed' = rfProbed \cup {id}
       /\ IF sz <= 0
            THEN /\ rfTotalBytes' = 0
                 /\ rfPc' = "loop"
                 /\ UNCHANGED rfFileSizes
            ELSE /\ rfFileSizes' = [rfFileSizes EXCEPT ![id] = sz]
                 /\ rfTotalBytes' = rfTotalBytes + sz
                 /\ UNCHANGED rfPc
  /\ UNCHANGED <<imVars, gcVars, lmVars, rfCfg, rfEnv, rfErr, rfCurrentFile, rfVisited, rfCur,
                 rfOpened, rfParsed, rfFinished, rfSrc, rfRej>>

\* ExportStorageConfFromURI or MakeExportStorage fails in the loop over Size()
ProbeFails ==
  /\ rfPc = "probe" /\ rfProbed # RfFiles
  /\ rfFaults < MaxFaults
  /\ rfFaults' = rfFaults + 1
  /\ RfReturn(RfError("MakeExportStorage"))
  /\ UNCHANGED <<imVars, gcVars, lmVars, rfCfg, rfCancelled, rfProbe, rfCurrentFile, rfVisited,
                 rfCur, rfOpened, rfParsed, rfFinished, rfSrc, rfRej>>

\* the loop over Size() has seen every file
ProbeDone ==
  /\ rfPc = "probe" /\ rfProbed = RfFiles
  /\ rfPc' = "loop"
  /\ UNCHANGED <<imVars, gcVars, lmVars, rfCfg, rfEnv, rfProbe, rfErr, rfCurrentFile, rfVisited,
                 rfCur, rfOpened, rfParsed, rfFinished, rfSrc, rfRej>>

\* a loop that would go to the next file without the select on ctx.Done()
NextFileUnchecked ==
  /\ rfPc = "loop"
  /\ \E id \in RfFiles \ rfVisited :
       /\ rfVisited' = rfVisited \cup {id}
       /\ rfCurrentFile' = rfCurrentFile + 1
       /\ rfCur' = id
  /\ rfPc' = "open" /\ UNCHANGED rfErr
  /\ UNCHANGED <<imVars, gcVars, lmVars, rfCfg, rfEnv, rfProbe, rfOpened, rfParsed, rfFinished,
                 rfSrc, rfRej>>

\* the next file of the map, in any order; the select on ctx.Done()
NextFile ==
  /\ rfPc = "loop"
  /\ \E id \in RfFiles \ rfVisited :
       /\ rfVisited' = rfVisited \cup {id}
       /\ rfCurrentFile' = rfCurrentFile + 1
       /\ rfCur' = id
  /\ IF rfCancelled THEN RfReturn(RfError("context canceled"))
                    ELSE rfPc' = "open" /\ UNCHANGED rfErr
  /\ UNCHANGED <<imVars, gcVars, lmVars, rfCfg, rfEnv, rfProbe, rfOpened, rfParsed, rfFinished,
                 rfSrc, rfRej>>

AllFilesRead ==
  /\ rfPc = "loop" /\ rfVisited = RfFiles
  /\ RfReturn(RfNil)
  /\ UNCHANGED <<imVars, gcVars, lmVars, rfCfg, rfEnv, rfProbe, rfCurrentFile, rfVisited, rfCur,
                 rfOpened, rfParsed, rfFinished, rfSrc, rfRej>>

\* ReadFile and decompressingReader succeed: src is built; the channel
\* rejected is made for MySQL-outfile with SaveRejected
OpenFile ==
  /\ rfPc = "open"
  /\ rfOpened' = Append(rfOpened, rfCur)
  /\ rfCounterN' = 0 /\ rfLastReported' = 0
  /\ rjMade' = (rfFormat = "MysqlOutfile" /\ rfSaveRejected)
  /\ rjCloses' = 0 /\ skBuf' = <<>>
  /\ skPc' = "none" /\ psPc' = "none"
  /\ skErr' = RfNil /\ psErr' = RfNil /\ grpErr' = RfNil
  /\ rfPc' = IF rjMade' THEN "startSink" ELSE "call"
  /\ UNCHANGED <<imVars, gcVars, lmVars, rfCfg, rfEnv, rfProbe, rfErr, rfCurrentFile, rfVisited,
                 rfCur, rfParsed, rfFinished, rfReadBytes, rfCalls, rfPcalls, rfFinishedArg, rfReads,
                 psSent, rfWrites>>

\* an error of opening a file: before ReadFile is called, or from it on
OpenStages == {"MakeExportStorage", "ReadFile"}

OpenFileFails ==
  /\ rfPc = "open"
  /\ rfFaults < MaxFaults
  /\ rfFaults' = rfFaults + 1
  /\ \E stage \in OpenStages :
       /\ RfReturn(RfError(stage))
       /\ rfOpened' = IF stage = "ReadFile" THEN Append(rfOpened, rfCur) ELSE rfOpened
  /\ UNCHANGED <<imVars, gcVars, lmVars, rfCfg, rfCancelled, rfProbe, rfCurrentFile, rfVisited,
                 rfCur, rfParsed, rfFinished, rfSrc, rfRej>>

\* grp.GoCtx of the task that collects the rejected rows
StartSink ==
  /\ rfPc = "startSink"
  /\ skPc' = "range"
  /\ rfPc' = "startParser"
  /\ UNCHANGED <<imVars, gcVars, lmVars, rfCfg, rfEnv, rfProbe, rfErr, rfCurrentFile, rfVisited,
                 rfCur, rfOpened, rfParsed, rfFinished, rfSrc, rjMade, rjCloses, skBuf,
                 skErr, psPc, psErr, psSent, grpErr, rfWrites>>

\* grp.GoCtx of the task that calls fileFunc
StartParser ==
  /\ rfPc = "startParser"
  /\ psPc' = "run"
  /\ rfParsed' = Append(rfParsed, rfCur)
  /\ rfPc' = "wait"
  /\ UNCHANGED <<imVars, gcVars, lmVars, rfCfg, rfEnv, rfProbe, rfErr, rfCurrentFile, rfVisited,
                 rfCur, rfOpened, rfFinished, rfSrc, rjMade, rjCloses, skPc, skBuf,
                 skErr, psErr, psSent, grpErr, rfWrites>>

\* fileFunc is called in readInputFiles itself, with a nil channel
CallFileFunc ==
  /\ rfPc = "call"
  /\ psPc' = "run"
  /\ rfParsed' = Append(rfParsed, rfCur)
  /\ rfPc' = "inline"
  /\ UNCHANGED <<imVars, gcVars, lmVars, rfCfg, rfEnv, rfProbe, rfErr, rfCurrentFile, rfVisited,
                 rfCur, rfOpened, rfFinished, rfSrc, rjMade, rjCloses, skPc, skBuf,
                 skErr, psErr, psSent, grpErr, rfWrites>>

\* fileFunc reads from src: byteCounter.Read counts the bytes
ParserReads ==
  /\ psPc = "run" /\ rfReads < MaxReads
  /\ rfCounterN' = rfCounterN + 1
  /\ rfReads' = rfReads + 1
  /\ UNCHANGED <<imVars, gcVars, lmVars, rfCfg, rfEnv, rfProbe, rfLoop, rfLastReported,
                 rfReadBytes, rfCalls, rfPcalls, rfFinishedArg, rfRej>>

\* a wrappedProgressFn that would report at progressBytes already
ReportsAtThreshold(finished) ==
  updateFromBytes /\ (finished \/ rfCounterN - rfLastReported >= ProgressBytes)

\* wrappedProgressFn(finished) has to call progressFn
Reports(finished) ==
  updateFromBytes /\ (finished \/ rfCounterN - rfLastReported > ProgressBytes)

\* the effect of wrappedProgressFn(finished)
WrappedProgressFn(finished) ==
  IF Reports(finished)
    THEN /\ rfReadBytes' = rfReadBytes + (rfCounterN - rfLastReported)
         /\ rfLastReported' = rfCounterN
         /\ rfCalls' = Append(rfCalls, [by |-> "bytes",
                                        val |-> Div(rfReadBytes', rfTotalBytes)])
    ELSE UNCHANGED <<rfReadBytes, rfLastReported, rfCalls>>

\* fileFunc returns e and the error is wrapped; in a task of grp the deferred
\* close(rejected) runs, and the task has yet to hand its error to grp
FileFuncReturns(e) ==
  /\ psErr' = Wrap(e, FileURI(rfCur))
  /\ IF rjMade
       THEN psPc' = "closed" /\ rjCloses' = rjCloses + 1
       ELSE psPc' = "done" /\ UNCHANGED rjCloses
  /\ UNCHANGED grpErr

\* fileFunc calls wrappedProgressFn(finished) and goes on; the calls are
\* counted when they can do something
ParserProgress ==
  /\ psPc = "run" /\ rfPcalls < MaxCalls
  /\ rfPcalls' = IF updateFromBytes THEN rfPcalls + 1 ELSE rfPcalls
  /\ \E finished \in BOOLEAN :
       /\ WrappedProgressFn(finished)
       /\ rfFinishedArg' = IF updateFromBytes THEN finished ELSE rfFinishedArg
  /\ UNCHANGED <<imVars, gcVars, lmVars, rfCfg, rfEnv, rfProbe, rfLoop, rfCounterN, rfReads,
                 rfRej>>

\* progressFn returns an error to wrappedProgressFn, and fileFunc returns it
ParserProgressFails ==
  /\ psPc = "run" /\ rfPcalls < MaxCalls
  /\ rfFaults < MaxFaults
  /\ rfFaults' = rfFaults + 1
  /\ rfPcalls' = rfPcalls + 1
  /\ \E finished \in BOOLEAN :
       /\ Reports(finished) /\ WrappedProgressFn(finished)
       /\ rfFinishedArg' = finished
  /\ FileFuncReturns(RfError("progressFn"))
  /\ UNCHANGED <<imVars, gcVars, lmVars, rfCfg, rfCancelled, rfProbe, rfLoop, rfCounterN, rfReads,
                 rjMade, skPc, skBuf, skErr, psSent, rfWrites>>

\* fileFunc sends a rejected row, and the collecting task receives it
ParserRejects ==
  /\ psPc = "run" /\ rjMade /\ skPc = "range"
  /\ psSent < MaxRejects
  /\ psSent' = psSent + 1
  /\ skBuf' = skBuf \o <<RejectedRow(psSent')>>
  /\ UNCHANGED <<imVars, gcVars, lmVars, rfCfg, rfEnv, rfProbe, rfLoop, rfSrc, rjMade, rjCloses,
                 skPc, skErr, psPc, psErr, grpErr, rfWrites>>

ParserReturns ==
  /\ psPc = "run"
  /\ FileFuncReturns(RfNil)
  /\ UNCHANGED <<imVars, gcVars, lmVars, rfCfg, rfEnv, rfProbe, rfLoop, rfSrc, rjMade, skPc,
                 skBuf, skErr, psSent, rfWrites>>

\* fileFunc fails, or returns the error of its context
ParserFails ==
  /\ psPc = "run"
  /\ \/ /\ rfFaults < MaxFaults
        /\ rfFaults' = rfFaults + 1
        /\ FileFuncReturns(RfError("fileFunc"))
     \/ /\ rfCancelled
        /\ UNCHANGED rfFaults
        /\ FileFuncReturns(RfError("context canceled"))
  /\ UNCHANGED <<imVars, gcVars, lmVars, rfCfg, rfCancelled, rfProbe, rfLoop, rfSrc, rjMade, skPc,
                 skBuf, skErr, psSent, rfWrites>>

\* the task that called fileFunc returns to grp, which keeps its error if it
\* is the first
ParserTaskReturns ==
  /\ psPc = "closed"
  /\ psPc' = "done"
  /\ grpErr' = IF grpErr = RfNil THEN psErr ELSE grpErr
  /\ UNCHANGED <<imVars, gcVars, lmVars, rfCfg, rfEnv, rfProbe, rfLoop, rfSrc, rjMade, rjCloses,
                 skPc, skBuf, skErr, psErr, psSent, rfWrites>>

\* the channel is closed and no row was received
SinkReturnsNil ==
  /\ skPc = "range" /\ rjCloses > 0 /\ skBuf = <<>>
  /\ skPc' = "done"
  /\ UNCHANGED <<imVars, gcVars, lmVars, rfCfg, rfEnv, rfProbe, rfLoop, rfSrc, rjMade, rjCloses,
                 skBuf, skErr, psPc, psErr, psSent, grpErr, rfWrites>>

\* the location the rejected rows of dataFile are written to: the storage
\* is made from rejectedFile, which is dataFile; parsedURI is not used
WriteLocation(dataFile) == dataFile

\* the channel is closed and rows were received: they are written
SinkWrites ==
  /\ skPc = "range" /\ rjCloses > 0 /\ skBuf # <<>>
  /\ UrlParse(FileURI(rfCur)).err = NoErr
  /\ rfWrites' = Append(rfWrites, [file |-> rfCur, uri |-> WriteLocation(FileURI(rfCur)),
                                   content |-> skBuf])
  /\ skPc' = "done"
  /\ UNCHANGED <<imVars, gcVars, lmVars, rfCfg, rfEnv, rfProbe, rfLoop, rfSrc, rjMade, rjCloses,
                 skBuf, skErr, psPc, psErr, psSent, grpErr>>

\* making the storage or WriteFile fails
SinkWriteFails ==
  /\ skPc = "range" /\ rjCloses > 0 /\ skBuf # <<>>
  /\ rfFaults < MaxFaults
  /\ rfFaults' = rfFaults + 1
  /\ skErr' = RfError("WriteFile")
  /\ grpErr' = IF grpErr = RfNil THEN skErr' ELSE grpErr
  /\ skPc' = "done"
  /\ UNCHANGED <<imVars, gcVars, lmVars, rfCfg, rfCancelled, rfProbe, rfLoop, rfSrc, rjMade,
                 rjCloses, skBuf, psPc, psErr, psSent, rfWrites>>

\* grp.Wait() returns
GrpWait ==
  /\ rfPc = "wait" /\ skPc = "done" /\ psPc = "done"
  /\ IF grpErr # RfNil
       THEN RfReturn(Wrap(grpErr, FileURI(rfCur))) /\ UNCHANGED rfFinished
       ELSE rfPc' = "after" /\ rfFinished' = rfFinished + 1 /\ UNCHANGED rfErr
  /\ UNCHANGED <<imVars, gcVars, lmVars, rfCfg, rfEnv, rfProbe, rfCurrentFile, rfVisited, rfCur,
                 rfOpened, rfParsed, rfSrc, rfRej>>

\* the call of fileFunc in readInputFiles itself has returned
FileFuncReturned ==
  /\ rfPc = "inline" /\ psPc = "done"
  /\ IF psErr # RfNil
       THEN RfReturn(psErr) /\ UNCHANGED rfFinished
       ELSE rfPc' = "after" /\ rfFinished' = rfFinished + 1 /\ UNCHANGED rfErr
  /\ UNCHANGED <<imVars, gcVars, lmVars, rfCfg, rfEnv, rfProbe, rfCurrentFile, rfVisited, rfCur,
                 rfOpened, rfParsed, rfSrc, rfRej>>

\* progress that always reports the end after a file
PerFileValueIsOne == Div(rfN, rfN)

\* the value reported after a file when progress goes by files
PerFileValue == Div(rfCurrentFile, rfN)

\* after a file: progressFn(currentFile / len(dataFiles)) when no size is known
AfterFile ==
  /\ rfPc = "after"
  /\ rfCalls' = IF updateFromFiles
                  THEN Append(rfCalls, [by |-> "files", val |-> PerFileValue])
                  ELSE rfCalls
  /\ rfPc' = "loop"
  /\ UNCHANGED <<imVars, gcVars, lmVars, rfCfg, rfEnv, rfProbe, rfErr, rfCurrentFile, rfVisited,
                 rfCur, rfOpened, rfParsed, rfFinished, rfCounterN, rfLastReported,
                 rfReadBytes, rfPcalls, rfFinishedArg, rfReads, rfRej>>

\* that call of progressFn returns an error
AfterFileFails ==
  /\ rfPc = "after" /\ updateFromFiles
  /\ rfFaults < MaxFaults
  /\ rfFaults' = rfFaults + 1
  /\ rfCalls' = Append(rfCalls, [by |-> "files", val |-> PerFileValue])
  /\ RfReturn(RfError("progressFn"))
  /\ UNCHANGED <<imVars, gcVars, lmVars, rfCfg, rfCancelled, rfProbe, rfCurrentFile, rfVisited,
                 rfCur, rfOpened, rfParsed, rfFinished, rfCounterN, rfLastReported,
                 rfReadBytes, rfPcalls, rfFinishedArg, rfReads, rfRej>>

InitReadFiles ==
  /\ ImportIdle /\ GcIdle /\ LmIdle
  /\ rfN \in 0..MaxReadFiles
  /\ rfHasProgressFn \in BOOLEAN
  /\ rfFormat \in {"CSV", "MysqlOutfile"}
  /\ rfSaveRejected \in BOOLEAN
  /\ (rfFormat = "MysqlOutfile" /\ rfSaveRejected) => rfN <= MaxRejectingFiles
  /\ rfCancelled = FALSE /\ rfFaults = 0
  /\ rfPc = "probe" /\ rfErr = RfNil
  /\ rfProbed = {} /\ rfTotalBytes = 0 /\ rfFileSizes = [id \in RfFiles |-> 0]
  /\ rfCurrentFile = 0 /\ rfVisited = {} /\ rfCur = 0
  /\ rfOpened = <<>> /\ rfParsed = <<>> /\ rfFinished = 0
  /\ rfCounterN = 0 /\ rfLastReported = 0 /\ rfReadBytes = 0
  /\ rfCalls = <<>> /\ rfPcalls = 0 /\ rfFinishedArg = FALSE /\ rfReads = 0
  /\ rjMade = FALSE /\ rjCloses = 0
  /\ skPc = "none" /\ skBuf = <<>> /\ skErr = RfNil
  /\ psPc = "none" /\ psErr = RfNil /\ psSent = 0
  /\ grpErr = RfNil
  /\ rfWrites = <<>>

NextReadFiles ==
  \/ RfCancel
  \/ ProbeSize
  \/ ProbeFails
  \/ ProbeDone
  \/ NextFile
  \/ AllFilesRead
  \/ OpenFile
  \/ OpenFileFails
  \/ StartSink
  \/ StartParser
  \/ CallFileFunc
  \/ ParserReads
  \/ ParserProgress
  \/ ParserProgressFails
  \/ ParserRejects
  \/ ParserReturns
  \/ ParserFails
  \/ ParserTaskReturns
  \/ SinkReturnsNil
  \/ SinkWrites
  \/ SinkWriteFails
  \/ GrpWait
  \/ FileFuncReturned
  \/ AfterFile
  \/ AfterFileFails

SpecReadFiles == InitReadFiles /\ [][NextReadFiles]_vars

(* --------------------------- FakeLockManager -------------------------- *)
MaxTxns == 2
MaxLockCalls == 2
MaxSweeps == 1

Txns == 1..MaxTxns
LockOps == {"AcquireExclusive", "AcquireShared", "TryAcquireExclusive"}

\* &FakeLock{exclusive: nil, shared: make(map), mu: sync.RWMutex{}}: w and r
\* are the state of mu, held for writing and the number of readers
FakeLock ==
  [key |-> "", txn |-> 0, exclusive |-> 0, shared |-> {}, isExclusive |-> FALSE,
   w |-> FALSE, r |-> 0]

\* a call of op by txn on key has started
NewCall(op, txn, key) ==
  [op |-> op, txn |-> txn, key |-> key, pc |-> "upsert", lock |-> 0,
   timer |-> IF op = "TryAcquireExclusive" THEN "armed" ELSE "none",
   gerr |-> NoErr, lease |-> 0, err |-> NoErr]

LmCall ==
  /\ ~lmCrashed /\ Len(lmCalls) < MaxLockCalls
  /\ \E op \in LockOps : \E txn \in Txns \ lmFinalized : \E key \in Keys :
       lmCalls' = Append(lmCalls, NewCall(op, txn, key))
  /\ UNCHANGED <<imVars, gcVars, rfVars, lmLocks, lmObjs, lmFinalized, lmSweeps, lmCrashed>>

\* the transaction commits or aborts
FinalizeTxn ==
  /\ ~lmCrashed
  /\ \E txn \in Txns \ lmFinalized : lmFinalized' = lmFinalized \cup {txn}
  /\ UNCHANGED <<imVars, gcVars, rfVars, lmLocks, lmObjs, lmCalls, lmSweeps, lmCrashed>>

\* upsertLock(txn, key), under fm's mutex: the lock stored for the key or,
\* if there is none, a new FakeLock - which is not put into fm.locks
upsertLock(c) ==
  /\ ~lmCrashed /\ lmCalls[c].pc = "upsert"
  /\ LET key == lmCalls[c].key
         found == lmLocks[key] # 0
         id == IF found THEN lmLocks[key] ELSE Len(lmObjs) + 1
         storedLock == IF found THEN lmObjs[id] ELSE FakeLock
     IN  /\ lmObjs' = [i \in 1..(IF found THEN Len(lmObjs) ELSE id) |->
                         IF i = id
                           THEN [storedLock EXCEPT !.txn = lmCalls[c].txn, !.key = key]
                           ELSE lmObjs[i]]
         /\ lmCalls' = [lmCalls EXCEPT ![c].lock = id, ![c].pc = "lock"]
  /\ UNCHANGED <<imVars, gcVars, rfVars, lmLocks, lmFinalized, lmSweeps, lmCrashed>>

\* storedLock.mu.Lock() returns; exclusive = txn, isExclusive = true. The
\* call returns the lock, or - in the task of TryAcquireExclusive - assigns
\* it to the results lock and err
AcquireExclusive(c) ==
  /\ ~lmCrashed /\ lmCalls[c].pc = "lock"
  /\ lmCalls[c].op \in {"AcquireExclusive", "TryAcquireExclusive"}
  /\ LET id == lmCalls[c].lock
     IN  /\ ~lmObjs[id].w /\ lmObjs[id].r = 0
         /\ lmObjs' = [lmObjs EXCEPT ![id].w = TRUE, ![id].exclusive = lmCalls[c].txn,
                                     ![id].isExclusive = TRUE]
         /\ lmCalls' = [lmCalls EXCEPT
                          ![c].lease = id, ![c].err = NoErr,
                          ![c].pc = IF lmCalls[c].op = "AcquireExclusive"
                                      THEN "returned" ELSE "acquired"]
  /\ UNCHANGED <<imVars, gcVars, rfVars, lmLocks, lmFinalized, lmSweeps, lmCrashed>>

\* storedLock.mu.RLock() returns; shared[txn.ID()] = txn
AcquireShared(c) ==
  /\ ~lmCrashed /\ lmCalls[c].pc = "lock" /\ lmCalls[c].op = "AcquireShared"
  /\ LET id == lmCalls[c].lock
     IN  /\ ~lmObjs[id].w
         /\ lmObjs' = [lmObjs EXCEPT ![id].r = @ + 1, ![id].shared = @ \cup {lmCalls[c].txn}]
         /\ lmCalls' = [lmCalls EXCEPT ![c].lease = id, ![c].err = NoErr,
                                       ![c].pc = "returned"]
  /\ UNCHANGED <<imVars, gcVars, rfVars, lmLocks, lmFinalized, lmSweeps, lmCrashed>>

\* the second task of TryAcquireExclusive: after a millisecond it returns
\* the error, which the group keeps
TryTimer(c) ==
  /\ ~lmCrashed /\ lmCalls[c].timer = "armed"
  /\ lmCalls' = [lmCalls EXCEPT ![c].timer = "fired",
                                ![c].gerr = "could not acquire lock"]
  /\ UNCHANGED <<imVars, gcVars, rfVars, lmLocks, lmObjs, lmFinalized, lmSweeps, lmCrashed>>

\* what TryAcquireExclusive returns once group.Wait() has returned waitErr:
\* (nil, waitErr) if there is one, else the results the first task assigned
TryResult(call) ==
  IF call.gerr # NoErr THEN [lease |-> 0, err |-> call.gerr]
                       ELSE [lease |-> call.lease, err |-> call.err]

\* group.Wait() returns when both tasks have
TryAcquireExclusive(c) ==
  /\ ~lmCrashed /\ lmCalls[c].op = "TryAcquireExclusive"
  /\ lmCalls[c].pc = "acquired" /\ lmCalls[c].timer = "fired"
  /\ lmCalls' = [lmCalls EXCEPT ![c].pc = "returned",
                                ![c].lease = TryResult(lmCalls[c]).lease,
                                ![c].err = TryResult(lmCalls[c]).err]
  /\ UNCHANGED <<imVars, gcVars, rfVars, lmLocks, lmObjs, lmFinalized, lmSweeps, lmCrashed>>

\* the locks fm.locks holds
StoredLocks == {lmLocks[k] : k \in Keys} \ {0}

\* what unlockFinalized does to a lock: mu.Unlock() if the exclusive
\* transaction is finalized; mu.RUnlock() and delete for each finalized
\* shared one
Unlocked(lock) ==
  [lock EXCEPT !.w = IF lock.exclusive \in lmFinalized THEN FALSE ELSE @,
               !.r = @ - Cardinality(lock.shared \cap lmFinalized),
               !.shared = @ \ lmFinalized]

\* the worker of Start runs unlockFinalized over fm.locks, under fm's mutex
unlockFinalized ==
  /\ ~lmCrashed /\ lmSweeps < MaxSweeps
  /\ lmSweeps' = lmSweeps + 1
  /\ lmObjs' = [i \in DOMAIN lmObjs |->
                  IF i \in StoredLocks THEN Unlocked(lmObjs[i]) ELSE lmObjs[i]]
  /\ lmCrashed' = \E i \in StoredLocks :
                     lmObjs[i].exclusive \in lmFinalized /\ ~lmObjs[i].w
  /\ UNCHANGED <<imVars, gcVars, rfVars, lmLocks, lmCalls, lmFinalized>>

InitLocks == ImportIdle /\ GcIdle /\ RfIdle /\ LmIdle

NextLocks ==
  \/ LmCall
  \/ FinalizeTxn
  \/ \E c \in DOMAIN lmCalls : upsertLock(c)
  \/ \E c \in DOMAIN lmCalls : AcquireExclusive(c)
  \/ \E c \in DOMAIN lmCalls : AcquireShared(c)
  \/ \E c \in DOMAIN lmCalls : TryTimer(c)
  \/ \E c \in DOMAIN lmCalls : TryAcquireExclusive(c)
  \/ unlockFinalized

SpecLocks == InitLocks /\ [][NextLocks]_vars

(* ----------------------------- specifications ------------------------- *)

Next ==
  \/ Cancel
  \/ RunFinish
  \/ RunMarshalFails
  \/ RunImportNoConverter
  \/ RunImportStart
  \/ RunImportWait
  \/ ReaderFails
  \/ ReaderCancelled
  \/ ConverterEmit
  \/ ReaderDone
  \/ ConverterClose
  \/ IngestMakePkAdder
  \/ IngestMakeIndexAdder
  \/ IngestMakeAdderFails
  \/ IngestWait
  \/ IngestFlush
  \/ IngestFlushFails
  \/ IngestSummary
  \/ IngestorFails
  \/ IngestorSendsFinal
  \/ IngestRecv
  \/ IngestChannelClosed
  \/ IngestDecodeFails
  \/ IngestAdd
  \/ IngestAddFails
  \/ IngestBatchDone
  \/ ReporterCancelled
  \/ ReporterStopped
  \/ ReporterTick
  \/ ReporterSend

Spec == Init /\ [][Next]_vars

(* --------------------------- the sampling run ------------------------- *)
SampleSizes == {0, 4, 8}

InitSample ==
  /\ IngestDirectly = FALSE
  /\ SampleSize \in SampleSizes
  /\ SpanProgress \in SpanSets
  /\ InitCommon
  /\ offsets = [f \in Files |-> f]
  /\ faultBudget = MaxFaults
  /\ GcIdle /\ RfIdle /\ LmIdle

NextSample ==
  \/ Cancel
  \/ RunFinish
  \/ RunImportNoConverter
  \/ RunImportStart
  \/ RunImportWait
  \/ ReaderFails
  \/ ReaderCancelled
  \/ ConverterEmit
  \/ ReaderDone
  \/ ConverterClose
  \/ EmitLoadJob
  \/ EmitLoadJobFails
  \/ EmitRecv
  \/ EmitChannelClosed
  \/ EmitOne
  \/ EmitRefused
  \/ EmitBatchDone

SpecSample == InitSample /\ [][NextSample]_vars

(* ------------------ a run of one file, in either mode ----------------- *)
InitOneFile == (Init \/ InitSample) /\ nFiles = 1

NextEither ==
  \/ Next
  \/ EmitLoadJob
  \/ EmitLoadJobFails
  \/ EmitRecv
  \/ EmitChannelClosed
  \/ EmitOne
  \/ EmitRefused
  \/ EmitBatchDone

SpecOneFile == InitOneFile /\ [][NextEither]_vars

\* the scheduler runs a goroutine that can take a step, and a call of a
\* collaborator returns: the run does not stop while a step is possible
FairSpecOneFile == SpecOneFile /\ WF_vars(NextEither)

(* ------------- a direct-ingest run of one file, two failures ---------- *)
InitTwoFaults ==
  /\ IngestDirectly = TRUE
  /\ SampleSize = 0
  /\ SpanProgress = {}
  /\ InitCommon
  /\ nFiles = 1
  /\ offsets = [f \in Files |-> f]
  /\ faultBudget = MaxFaults + 1
  /\ GcIdle /\ RfIdle /\ LmIdle

SpecTwoFaults == InitTwoFaults /\ [][Next]_vars
(* ------------------------------ properties ---------------------------- *)
\* runImport has returned, and summary and err are what it returned: Run
\* has not gone past its loop over progCh
RunImportReturned == riPc = "done" /\ runPc = "recv"

IngestReturned == ikPc \in {"returned", "done"}

\* the ingest task passes the KV at hand to Add
AddsCurrentKV ==
  /\ itPc = "kv" /\ itPos <= Len(itBatch.KVs) /\ DecodeOK(CurrentKV.key)
  /\ adder' # adder

\* C1: a KV whose decoded IndexID is 1 is passed to the PK adder's Add and
\* never to the secondary adder's, and a KV whose decoded IndexID is not 1 is
\* passed to the secondary adder's Add and never to the PK adder's: both for
\* the KVs each adder has been given so far and for each single call of Add.
RoutedByIndexID ==
  /\ [](/\ \A kv \in BagToSet(adder["pkAdder"].adds) : DecodeIndexID(kv.key) = 1
        /\ \A kv \in BagToSet(adder["indexAdder"].adds) : DecodeIndexID(kv.key) # 1)
  /\ [][AddsCurrentKV =>
          IF DecodeIndexID(CurrentKV.key) = 1
            THEN /\ adder'["pkAdder"].adds = adder["pkAdder"].adds (+) SetToBag({CurrentKV})
                 /\ adder'["indexAdder"] = adder["indexAdder"]
            ELSE /\ adder'["indexAdder"].adds = adder["indexAdder"].adds (+) SetToBag({CurrentKV})
                 /\ adder'["pkAdder"] = adder["pkAdder"]]_vars

RoutedBothWays ==
  /\ adder["pkAdder"].adds # EmptyBag
  /\ adder["indexAdder"].adds # EmptyBag

\* C2: when the reporter task sends a record on the progress channel, the
\* record's CompletedRow of every file i is at most writtenRow[offset(i)].
CompletedRowBelowWritten ==
  rpPc = "send" =>
    \A file \in Files : rpRec.CompletedRow[file] <= writtenRow[offsets[file]]

ReportsFlushedRow ==
  /\ rpPc = "send"
  /\ \E file \in Files : rpRec.CompletedRow[file] > 0

\* C3: every adder ingestKvs has constructed is closed exactly once when
\* ingestKvs has returned, whatever the exit path; no adder is closed twice,
\* and none that was not constructed is closed.
AddersClosedOnce ==
  \A a \in AdderNames :
    /\ adder[a].closes <= 1
    /\ adder[a].closes = 1 => adder[a].made
    /\ (IngestReturned /\ adder[a].made) => adder[a].closes = 1

PkClosedWithoutIndexAdder ==
  /\ ikPc = "returned" /\ ikErr = "BulkAdder"
  /\ adder["pkAdder"].made /\ adder["pkAdder"].closes = 1
  /\ ~adder["indexAdder"].made

\* C4, as stated: in every execution of ingestKvs (that gets as far as making
\* the channel) stopProgress is closed exactly once, by the ingest task, and
\* only once the KV channel has been closed and fully drained.
StopProgressClosedAfterDrain ==
  /\ stopCloses <= 1
  /\ stopClosedBy \in {"nobody", "ingest task"}
  /\ (IngestReturned /\ adder["indexAdder"].made) => stopCloses = 1
  /\ stopCloses > 0 => (kvCloses > 0 /\ kvCh = <<>>)

\* C4: stopProgress is closed at most once and by nobody but the ingest task,
\* which closes it when it returns; an execution of ingestKvs that has
\* constructed both adders has closed it exactly once when it returns; and
\* when the ingest task returns nil, the KV channel has been closed and
\* fully drained before the close.
StopProgressClosedByIngestTask ==
  /\ stopCloses <= 1
  /\ stopClosedBy = (IF stopCloses = 0 THEN "nobody" ELSE "ingest task")
  /\ stopCloses = 1 <=> itPc = "done"
  /\ (IngestReturned /\ adder["indexAdder"].made) => stopCloses = 1
  /\ (itPc = "done" /\ itErr = NoErr) => (kvCloses > 0 /\ kvCh = <<>>)

StopProgressClosedOnError ==
  /\ itPc = "done" /\ itErr # NoErr
  /\ stopCloses = 1
  /\ kvCloses = 0 /\ kvCh # <<>>

\* C5: once runImport has started the reader task, inputFinished is invoked
\* exactly once, when the task returns (readFiles has returned, or LoadJob has
\* failed), with or without an error; the KV channel is closed at most once,
\* by the converter and only after inputFinished.
InputFinishedOnce ==
  /\ inputFinishedCalls <= 1
  /\ inputFinishedCalls = 1 <=> rdPc = "done"
  /\ (riPc = "done" /\ rdPc # "idle") => inputFinishedCalls = 1
  /\ kvCloses <= 1
  /\ kvCloses = 1 => (inputFinishedCalls = 1 /\ kvClosedBy = "converter")
  /\ kvCloses = 0 => kvClosedBy = "nobody"

InputFinishedAfterLoadJobFailed ==
  /\ rdErr = "LoadJob"
  /\ inputFinishedCalls = 1
  /\ kvCloses = 1

\* the number of KVs in a bag
RECURSIVE BagSize(_)
BagSize(B) ==
  IF DOMAIN B = {} THEN 0
  ELSE LET x == CHOOSE y \in DOMAIN B : TRUE
       IN B[x] + BagSize([y \in DOMAIN B \ {x} |-> B[y]])

\* C8: when ingestKvs has completed cleanly, every KV sent on the KV channel
\* has been passed to Add of exactly one adder exactly once, both adders have
\* been flushed, and the summary returned is the PK adder's summary plus the
\* secondary adder's, which counts exactly the KVs sent.
CleanIngestAccountsForAll ==
  (IngestReturned /\ ikErr = NoErr) =>
    /\ \A kv \in DirectKVs :
         /\ CopiesIn(kv, adder["pkAdder"].adds) + CopiesIn(kv, adder["indexAdder"].adds)
              = CopiesIn(kv, sent)
         /\ CopiesIn(kv, adder["pkAdder"].adds) = 0
              \/ CopiesIn(kv, adder["indexAdder"].adds) = 0
    /\ \A a \in AdderNames : adder[a].flushes >= 1 /\ IsEmpty(adder[a])
    /\ ikSummary = GetSummary(adder["pkAdder"]) + GetSummary(adder["indexAdder"])
    /\ GetSummary(adder["pkAdder"]) = BagSize(adder["pkAdder"].adds)
    /\ GetSummary(adder["indexAdder"]) = BagSize(adder["indexAdder"].adds)
    /\ ikSummary = BagSize(sent)

CleanIngestOfBothIndexes ==
  /\ ikPc = "returned" /\ ikErr = NoErr
  /\ RoutedBothWays
  /\ ikSummary = 2

\* the positions of the records of a sender among what Run has pushed
RecordsFrom(from) ==
  {i \in DOMAIN output : output[i].kind = "progress" /\ output[i].from = from}

AllTasksReturned ==
  /\ rdPc \in {"idle", "done"} /\ cvPc \in {"idle", "done"}
  /\ ikPc \in {"idle", "done"} /\ itPc \in {"idle", "done"}
  /\ rpPc \in {"idle", "done"} /\ emPc \in {"idle", "done"}

\* C6: in direct-ingest mode, for any number of files, when ingestKvs has
\* completed without error runImport sends exactly one final record, with
\* CompletedFraction 1.0 and CompletedRow MaxUint64 for every file, after
\* every record of the reporter task, and then returns the summary and a nil
\* error.
FinalRecordThenSummary ==
  /\ (ikPc = "returned" /\ ikErr = NoErr) => RecordsFrom("runImport") = {}
  /\ (ikPc = "done" /\ ikErr = NoErr) =>
       /\ Cardinality(RecordsFrom("runImport")) = 1
       /\ \A i \in RecordsFrom("runImport") :
            /\ output[i].prog = FinalProgress
            /\ \A j \in RecordsFrom("reporter") : j < i
       /\ RunImportReturned => (err = NoErr /\ summary = ikSummary /\ summary # -1)

\* the final record alone: sent once, complete, after the reporter's records
FinalRecordSentOnce ==
  /\ (ikPc = "returned" /\ ikErr = NoErr) => RecordsFrom("runImport") = {}
  /\ (ikPc = "done" /\ ikErr = NoErr) =>
       /\ Cardinality(RecordsFrom("runImport")) = 1
       /\ \A i \in RecordsFrom("runImport") :
            /\ output[i].prog = FinalProgress
            /\ \A j \in RecordsFrom("reporter") : j < i

\* C7: in direct-ingest mode, when runImport has returned a non-nil error
\* every task has returned and no final record (CompletedFraction 1.0 for
\* every file) was sent on the progress channel.
NoFinalRecordOnError ==
  (RunImportReturned /\ err # NoErr) =>
    /\ AllTasksReturned
    /\ RecordsFrom("runImport") = {}

\* the tasks of a failed runImport have all returned
TasksReturnedOnError ==
  (RunImportReturned /\ err # NoErr) => AllTasksReturned

\* the rows emitKvs has pushed to the sink, in order
PushedRows ==
  LET rows == SelectSeq(output, LAMBDA r : r.kind = "row")
  IN [i \in DOMAIN rows |-> rows[i].row]

\* emitKvs takes a step on the KV at hand
HandlesKV ==
  /\ emPc = "kv" /\ emPos <= Len(emBatch.KVs)
  /\ <<emPc, emPos, emErr>>' # <<emPc, emPos, emErr>>

\* C9: no row emitKvs pushes has its key in a completed span loaded from the
\* job progress, and a KV whose key lies in a completed span is passed over
\* with no push and no error.
NoPushInCompletedSpan ==
  /\ [](\A i \in DOMAIN PushedRows : ~Contains(completedSpans, PushedRows[i][1]))
  /\ [][(HandlesKV /\ Contains(completedSpans, EmitKV.key)) =>
          (output' = output /\ emErr' = NoErr /\ emPc' = "kv" /\ emPos' = emPos + 1)]_vars

DroppedOneOfTwo ==
  /\ emPc = "done" /\ emErr = NoErr
  /\ Len(emSeen) = 2 /\ Len(PushedRows) = 1
  /\ \E i \in DOMAIN emSeen : Contains(completedSpans, emSeen[i].key)

\* C10: with SampleSize = 0, no completed spans and a sink that always needs
\* more rows, the rows pushed are the KVs received from the KV channel so far,
\* in channel order and each with its full key and value; once emitKvs has
\* returned nil they are exactly the KVs the converter emitted.
SampleAllForwardsEverything ==
  (SampleSize = 0 /\ SpanProgress = {} /\ emErr # "unexpected closure of consumer") =>
    /\ Len(PushedRows) <= Len(emSeen)
    /\ \A i \in DOMAIN PushedRows : PushedRows[i] = <<emSeen[i].key, emSeen[i].val>>
    /\ (emPc = "done" /\ emErr = NoErr) =>
         /\ Len(PushedRows) = Len(emSeen)
         /\ \A kv \in SampleKVs : CopiesIn(kv, BagOfSeq(emSeen)) = CopiesIn(kv, sent)

ForwardedTwoInOrder ==
  /\ SampleSize = 0 /\ SpanProgress = {}
  /\ emPc = "done" /\ emErr = NoErr
  /\ Len(PushedRows) = 2
  /\ PushedRows[1] = <<(<<5, 1>>), (<<7, 7>>)>>
  /\ PushedRows[2] = <<(<<4, 1>>), (<<7>>)>>

\* the metadata-free push of a row
RowPushed(row) == output' = Append(output, [kind |-> "row", row |-> row])

\* C11: with SampleSize > 0, a KV outside the completed spans that has a
\* descriptor key is pushed with its full value, whatever the draw; any other
\* such KV is either pushed with an empty value column, and then some draw
\* makes the sample function accept it, or not pushed, and then some draw
\* makes the sample function reject it.
SamplingKeepsDescriptors ==
  [][(HandlesKV /\ SampleSize > 0 /\ ~Contains(completedSpans, EmitKV.key)) =>
       IF IsDescriptorKey(EmitKV.key)
         THEN RowPushed(<<EmitKV.key, EmitKV.val>>)
         ELSE \/ /\ RowPushed(<<EmitKV.key, <<>>>>)
                 /\ \E d \in 0..(DrawSteps - 1) : Sample(EmitKV, SampleSize, d)
              \/ /\ output' = output
                 /\ \E d \in 0..(DrawSteps - 1) : ~Sample(EmitKV, SampleSize, d)]_vars

DescriptorFullSampledEmpty ==
  /\ SampleSize = 8 /\ emPc = "done" /\ emErr = NoErr
  /\ PushedRows = << <<(<<3, 1>>), (<<7, 7>>)>>, <<(<<5, 1>>), (<<>>)>> >>

\* C12: once the sink has answered a Push of emitKvs with a status other than
\* NeedMoreRows, emitKvs has returned "unexpected closure of consumer": the
\* refused row is the last it pushes, it takes no further KV, and runImport
\* returns an error and no summary.
RefusedPushEndsEmitKvs ==
  /\ [](sinkStatus # "NeedMoreRows" =>
          /\ emPc = "done" /\ emErr = "unexpected closure of consumer"
          /\ groupErr # NoErr
          /\ riPc = "done" => (err # NoErr /\ summary = -1))
  /\ [][(sinkStatus = "NeedMoreRows" /\ sinkStatus' # "NeedMoreRows") =>
          (RowPushed(RowOf(EmitKV, RowRequired(EmitKV))) /\ emPc' = "done")]_vars
  /\ [][sinkStatus # "NeedMoreRows" =>
          /\ PushedRows' = PushedRows
          /\ <<emPc, emBatch, emPos, emSeen, emErr>>' = <<emPc, emBatch, emPos, emSeen, emErr>>]_vars

RunImportFailedByRefusal ==
  /\ sinkStatus = "ConsumerClosed"
  /\ riPc = "done" /\ err = "unexpected closure of consumer"
  /\ Len(PushedRows) = 1 /\ Len(emSeen) = 2

\* the wording ingestKvs gives to a duplicate key of an adder
DuplicateWording(a) ==
  IF a = "pkAdder" THEN "duplicate key in primary index" ELSE "duplicate key in index"

\* what the adders hold and have written
AdderContents == [a \in AdderNames |-> <<adder[a].adds, adder[a].buf, adder[a].flushed, adder[a].flushes>>]

\* C13, as stated: when an adder has reported a DuplicateKeyError, from Add or
\* from the final Flush, ingestKvs returns no summary and the error wrapped
\* with the wording of that adder.
DuplicateKeyAlwaysReturned ==
  \A a \in AdderNames :
    (adder[a].err = "DuplicateKeyError" /\ IngestReturned) =>
      (ikSummary = -1 /\ ikErr = DuplicateWording(a))

\* C13: when an adder has reported a DuplicateKeyError, the ingest task
\* (for Add) returns it wrapped with the wording of that adder, and ingestKvs
\* returns no summary and a non-nil error: that wrapped error, unless the
\* reporter task had returned its context's error before, which g.Wait then
\* returns instead; a duplicate reported by the final Flush is always returned
\* wrapped. After a duplicate reported by Add nothing more is added to either
\* adder and neither is flushed.
DuplicateKeyWrapped ==
  /\ [](\A a \in AdderNames :
          adder[a].err = "DuplicateKeyError" =>
            /\ itPc = "done"
            /\ itErr \in {NoErr, DuplicateWording(a)}
            /\ IngestReturned =>
                 /\ ikSummary = -1
                 /\ ikErr = (IF itErr = NoErr THEN DuplicateWording(a) ELSE gErr)
                 /\ ikErr \in {DuplicateWording(a), "context canceled"})
  /\ [][(\E a \in AdderNames : adder[a].err = "DuplicateKeyError") =>
          AdderContents' = AdderContents]_vars

DuplicateHiddenByCancellation ==
  /\ adder["indexAdder"].err = "DuplicateKeyError"
  /\ itErr = "duplicate key in index"
  /\ ikPc = "returned" /\ ikErr = "context canceled"

\* C14: runImport returns only when every task it spawned has returned; if a
\* task has returned an error the group's context is cancelled, and runImport
\* returns no summary and the first of the errors the tasks returned; if none
\* has, it returns a nil error with the ingestor's summary in direct-ingest
\* mode and no summary in sampling mode.
RunImportWaitsForFirstError ==
  /\ errLog # <<>> => GroupCtxDone
  /\ (RunImportReturned /\ rdPc # "idle") =>
       /\ AllTasksReturned
       /\ rdPc = "done" /\ cvPc = "done" /\ ConsumerDone
       /\ IF errLog # <<>>
            THEN err = errLog[1] /\ summary = -1
            ELSE /\ err = NoErr
                 /\ summary = (IF IngestDirectly THEN ikSummary ELSE -1)
                 /\ IngestDirectly => ikSummary # -1

SecondErrorDropped ==
  /\ riPc = "done"
  /\ Len(errLog) = 2 /\ errLog[1] # errLog[2]
  /\ err = errLog[1]

ReporterAlive == rpPc \in {"select", "send"}

\* C15: under fair scheduling every send on the progress channel, by the
\* reporter task or of the final record, is received; the reporter task
\* terminates once stopProgress is closed or its context is cancelled; and
\* Run calls ProducerDone once the converter has closed the KV channel or a
\* task has failed.
ProgressNeverDeadlocks ==
  /\ (rpPc = "send") ~> (rpPc # "send")
  /\ (ikPc = "returned" /\ ikErr = NoErr) ~> (ikPc = "done")
  /\ (ReporterAlive /\ (stopCloses > 0 \/ IngestCtxDone)) ~> (rpPc = "done")
  /\ (kvCloses > 0 \/ errLog # <<>>) ~> (producerDone = 1)

\* the same, for the runs in which no flush hook panics
ProgressNeverDeadlocksUnlessPanic ==
  /\ (rpPc = "send") ~> (rpPc # "send" \/ panicked)
  /\ (ikPc = "returned" /\ ikErr = NoErr) ~> (ikPc = "done" \/ panicked)
  /\ (ReporterAlive /\ (stopCloses > 0 \/ IngestCtxDone)) ~> (rpPc = "done" \/ panicked)
  /\ (kvCloses > 0 \/ errLog # <<>>) ~> (producerDone = 1 \/ panicked)

Count(kind) == Cardinality({i \in DOMAIN output : output[i].kind = kind})

RunReturns == runPc = "recv" /\ runPc' = "done"

\* C16: every progress record is pushed as metadata; when Run has returned,
\* on error the output holds exactly one error metadata, pushed last, and no
\* summary row; on success in direct-ingest mode exactly one row, the
\* summary with empty bytes, pushed last; on success in sampling mode Run's
\* last step pushes nothing; ProducerDone is called exactly once, by the
\* step that returns, and nothing is pushed after it.
RunOutputContract ==
  /\ [](producerDone = (IF runPc = "done" THEN 1 ELSE 0))
  /\ [](runPc # "done" => Count("error") = 0)
  /\ []((runPc = "done" /\ err # NoErr) =>
          /\ Count("error") = 1
          /\ output[Len(output)] = [kind |-> "error", err |-> err]
          /\ (IngestDirectly => Count("row") = 0))
  /\ []((runPc = "done" /\ err = NoErr /\ IngestDirectly) =>
          /\ Count("error") = 0 /\ Count("row") = 1
          /\ output[Len(output)] = [kind |-> "row", row |-> <<summary, <<>>>>])
  /\ [][/\ producerDone = 1 => output' = output
        /\ (RunReturns /\ ~IngestDirectly) =>
             output' = IF err' = NoErr THEN output
                       ELSE Append(output, [kind |-> "error", err |-> err'])
        /\ (rpPc = "send" /\ rpPc' = "select") =>
             output' = Append(output, ProgressMeta(rpRec, "reporter"))
        /\ (ikPc = "returned" /\ ikPc' = "done" /\ ikErr = NoErr) =>
             output' = Append(output, ProgressMeta(FinalProgress, "runImport"))]_vars

SummaryRowAfterProgress ==
  /\ runPc = "done" /\ producerDone = 1 /\ err = NoErr /\ IngestDirectly
  /\ Len(output) >= 3
  /\ output[Len(output) - 1].kind = "progress"
  /\ output[Len(output)].kind = "row"

\* the rule of guessCompressionFromName, one step of it
GuessRule(name, hint) ==
  IF hint # "Auto" THEN hint
  ELSE IF name # <<>> /\ name[Len(name)] = ".gz" THEN "Gzip"
  ELSE IF name # <<>> /\ name[Len(name)] \in {".bz", ".bz2"} THEN "Bzip"
  ELSE IF UrlParse(name).err = NoErr /\ UrlParse(name).Path # name
    THEN guessCompressionFromName(UrlParse(name).Path, "Auto")
  ELSE "None"

\* a URL whose path ends in .gz, followed by a query string
GzPathThenQuery(name) ==
  /\ UrlParse(name).err = NoErr
  /\ HasSuffix(UrlParse(name).Path, ".gz")
  /\ \E i \in DOMAIN name : name[i] = "?"
  /\ name[Len(name)] \notin {".gz", ".bz", ".bz2"}

\* C19: guessCompressionFromName returns a hint other than Auto unchanged;
\* with hint Auto it returns Gzip for a name ending in .gz, Bzip for a name
\* ending in .bz or .bz2, otherwise what the same rule gives for the path of
\* the name parsed as a URI when that path differs from the name, and None
\* in every other case; a URL whose path ends in .gz before a query string
\* is Gzip, and a Gzip hint selects gzip for a name without .gz.
GuessFollowsRule ==
  gcPc = "done" =>
    /\ gcResult = GuessRule(gcName, gcHint)
    /\ (gcHint = "Gzip" => gcReader = "gzip.NewReader")
    /\ ((gcHint = "Auto" /\ GzPathThenQuery(gcName)) => gcResult = "Gzip")

GzipBeforeQuery ==
  /\ gcPc = "done" /\ gcHint = "Auto"
  /\ gcName = <<"s://h", "/", ".gz", "?">>
  /\ gcResult = "Gzip"

\* a size probe has failed or returned 0: the loop over Size() stopped at a
\* file and recorded no size for it
ProbeFailed == \E id \in rfProbed : rfFileSizes[id] = 0

\* C17: with a progress callback, when the size probe of a file failed or
\* returned 0, the callback has been invoked once for each file read so far,
\* the k-th time with k/N, and never with a value computed from bytes; when
\* readInputFiles returns nil the N files have produced 1/N, 2/N, ..., 1.
PerFileProgressAfterFailedProbe ==
  (rfHasProgressFn /\ ProbeFailed /\ rfPc # "probe") =>
    /\ \A k \in DOMAIN rfCalls : rfCalls[k] = [by |-> "files", val |-> Div(k, rfN)]
    /\ Len(rfCalls) = IF rfPc = "after" THEN rfFinished - 1 ELSE rfFinished
    /\ (rfPc = "done" /\ rfErr = RfNil) => Len(rfCalls) = rfN

ThreeFilesThreeValues ==
  /\ rfHasProgressFn /\ ProbeFailed /\ rfN = 3
  /\ rfPc = "done" /\ rfErr = RfNil
  /\ rfReads > 0
  /\ rfCalls = <<[by |-> "files", val |-> <<1, 3>>], [by |-> "files", val |-> <<2, 3>>],
                 [by |-> "files", val |-> <<1, 1>>]>>

\* the writes of rejected rows made for file id
WritesOf(id) == {i \in DOMAIN rfWrites : rfWrites[i].file = id}

\* readInputFiles is at work on file rfCur, or has returned from there
RfAtCurrent ==
  \/ rfPc \in {"startSink", "startParser"}
  \/ rfParsed # <<>> /\ rfParsed[Len(rfParsed)] = rfCur

\* the rows fileFunc sent for the current file, in the order it sent them
SentForCurrent ==
  [k \in 1..Len(skBuf) |-> RejectedRow(psSent - Len(skBuf) + k)]

\* the task that collects the rejected rows is started before fileFunc, the
\* channel is closed once, when fileFunc returns, and the rows received are
\* written in one piece, in order, when the channel is closed - or nothing
\* is written when none was received
RejectedRowsCollected ==
  (rjMade /\ RfAtCurrent) =>
    /\ psPc # "none" => skPc # "none"
    /\ rjCloses = (IF psPc \in {"closed", "done"} THEN 1 ELSE 0)
    /\ skBuf = SentForCurrent
    /\ (skPc = "done" /\ skErr = RfNil) =>
         IF skBuf = <<>> THEN WritesOf(rfCur) = {}
         ELSE \E i \in DOMAIN rfWrites :
                WritesOf(rfCur) = {i} /\ rfWrites[i].content = skBuf
    /\ skPc # "done" => WritesOf(rfCur) = {}

\* C18: with MySQL-outfile and SaveRejected, for each file the collecting
\* task is started before fileFunc can send, the channel is closed exactly
\* once when fileFunc returns, and the rejected rows received, if any, are
\* written in order to the file's URI with ".rejected" appended to its path,
\* not to the source URI; nothing is written when none was received.
RejectedRowsWrittenAside ==
  /\ RejectedRowsCollected
  /\ \A i \in DOMAIN rfWrites :
       /\ rfWrites[i].uri = RejectedURI(FileURI(rfWrites[i].file))
       /\ rfWrites[i].uri # FileURI(rfWrites[i].file)

\* what the code does with the rejected rows: they replace the source
RejectedRowsWrittenOverSource ==
  \A i \in DOMAIN rfWrites : rfWrites[i].uri = FileURI(rfWrites[i].file)

\* the flush hook of adder a has run in this step
HookRan(a) == ~panicked' /\ adder'[a].flushes > adder[a].flushes

\* C20: when the PK adder's flush hook has run, pkFlushedRow[i] equals
\* writtenRow[i] for every offset i, and so does idxFlushedRow[i] if the
\* secondary adder was empty; when the secondary adder's hook has run,
\* idxFlushedRow[i] equals writtenRow[i] for every offset i and pkFlushedRow
\* is unchanged.
HooksCopyEveryWrittenRow ==
  [][/\ HookRan("pkAdder") =>
          /\ \A i \in Files : pkFlushedRow'[i] = writtenRow[i]
          /\ IsEmpty(adder["indexAdder"]) =>
               \A i \in Files : idxFlushedRow'[i] = writtenRow[i]
     /\ HookRan("indexAdder") =>
          /\ \A i \in Files : idxFlushedRow'[i] = writtenRow[i]
          /\ pkFlushedRow' = pkFlushedRow]_vars

\* the LastRow of the batches of file f of which a KV is not flushed: it is
\* in the buffer of an adder, or the ingest task has not added it, or the
\* batch waits in the KV channel
BufferedRows(f) ==
  {t[2] : t \in {u \in UNION {adder[a].pending : a \in AdderNames} : u[1] = f}}

RowsInHand(f) ==
  IF /\ itBatch.Source = f /\ itBatch.KVs # <<>>
     /\ (itPc = "kv" \/ (itPc = "done" /\ itErr # NoErr))
    THEN {itBatch.LastRow} ELSE {}

RowsInChannel(f) ==
  {kvCh[i].LastRow : i \in {j \in DOMAIN kvCh : kvCh[j].Source = f /\ kvCh[j].KVs # <<>>}}

UnflushedRows(f) == BufferedRows(f) \cup RowsInHand(f) \cup RowsInChannel(f)

Min(a, b) == IF a < b THEN a ELSE b

\* the record of the reporter task holds, for every file, the smaller of
\* the two flushed rows of the file
RecordHoldsMinimum ==
  [][(rpPc = "select" /\ rpPc' = "send") =>
       \A f \in Files :
         rpRec'.CompletedRow[f] = Min(pkFlushedRow[offsets[f]], idxFlushedRow[offsets[f]])]_vars

FlushStarted == ikPc \in {"flushPk", "flushIdx", "summary"}

\* the Flush of the PK adder has failed: ingestKvs returned after g.Wait
\* returned nil, with an error of the PK adder
PkFlushFailed ==
  IngestReturned /\ gErr = NoErr /\ itPc = "done" /\ adder["pkAdder"].err # NoErr

\* C22: when ingestKvs flushes, the KV channel is closed and drained,
\* stopProgress is closed and both tasks have returned nil; the ingest task
\* returns nil, and the reporter task returns nil, only after the events
\* before it; the secondary adder is flushed after the PK adder and the
\* summaries are read after both; no Add happens once a Flush has started;
\* and after a failed Flush of the PK adder the secondary adder is never
\* flushed.
FlushOrder ==
  /\ [](FlushStarted =>
          /\ kvCloses > 0 /\ kvCh = <<>>
          /\ stopCloses = 1 /\ itPc = "done" /\ rpPc = "done" /\ gErr = NoErr)
  /\ [](stopCloses > 0 /\ itErr = NoErr => kvCloses > 0 /\ kvCh = <<>>)
  /\ [](rpPc = "done" /\ gErr = NoErr => stopCloses > 0)
  /\ [](ikPc = "flushPk" => \A a \in AdderNames : adder[a].flushes = 0)
  /\ [](ikPc = "flushIdx" =>
          adder["pkAdder"].flushes = 1 /\ adder["indexAdder"].flushes = 0)
  /\ [](ikPc = "summary" => \A a \in AdderNames : adder[a].flushes = 1)
  /\ [](adder["indexAdder"].flushes > 0 => adder["pkAdder"].flushes > 0)
  /\ [][FlushStarted \/ (\E a \in AdderNames : adder[a].flushes > 0) =>
          \A a \in AdderNames : adder'[a].adds = adder[a].adds]_vars
  /\ [](PkFlushFailed => adder["indexAdder"].flushes = 0)

\* both adders, with KVs added, are flushed and the summaries are read
BothFlushedInOrder ==
  /\ ikPc = "summary"
  /\ \A a \in AdderNames : adder[a].flushes = 1 /\ adder[a].adds # EmptyBag


\* the value of the last call of progressFn, 0 before the first
LastReportedValue == IF rfCalls = <<>> THEN <<0, 1>> ELSE rfCalls[Len(rfCalls)].val

\* fractions a and b with a <= b
FractionLeq(a, b) == a[1] * b[2] <= b[1] * a[2]

\* a step that is a call of wrappedProgressFn with byte-based progress
CallsWrappedProgressFn == updateFromBytes /\ rfPcalls' = rfPcalls + 1

\* C23: with byte-based progress a call wrappedProgressFn(finished) calls
\* progressFn exactly when finished is true or more than progressBytes
\* bytes were counted for the file since its last report; the value is the
\* value of the previous report plus the bytes counted since, over the
\* total size; and the values of the calls never decrease.
ByteProgressReports ==
  /\ [][CallsWrappedProgressFn =>
          /\ (Len(rfCalls') = Len(rfCalls) + 1) <=>
               (rfFinishedArg' \/ rfCounterN - rfLastReported > ProgressBytes)
          /\ Len(rfCalls') \in {Len(rfCalls), Len(rfCalls) + 1}
          /\ Len(rfCalls') = Len(rfCalls) + 1 =>
               LET new == rfCalls'[Len(rfCalls')].val
                   old == LastReportedValue
               IN  /\ rfCalls'[Len(rfCalls')].by = "bytes"
                   /\ new[1] * old[2] * rfTotalBytes =
                        new[2] * (old[1] * rfTotalBytes
                                    + (rfCounterN - rfLastReported) * old[2])]_vars
  /\ [](updateFromBytes =>
          \A i, j \in DOMAIN rfCalls :
            i <= j => FractionLeq(rfCalls[i].val, rfCalls[j].val))
  /\ [][updateFromBytes /\ ~CallsWrappedProgressFn => rfCalls' = rfCalls]_vars

\* the only call so far had finished = false and reported: more than
\* progressBytes bytes had been counted
ReportedPastThreshold ==
  /\ updateFromBytes /\ rfPcalls = 1 /\ ~rfFinishedArg
  /\ Len(rfCalls) = 1 /\ rfCalls[1].val # <<0, 1>>

\* readInputFiles has returned because of file rfCur: the context was
\* cancelled when its turn came, or opening it, decompressing it or fileFunc
\* failed
FailedAtCurrent ==
  /\ rfPc = "done" /\ rfErr # RfNil /\ rfCur # 0
  /\ rfErr.msg \in {"context canceled", "MakeExportStorage", "ReadFile", "fileFunc"}

\* no file follows rfCur: it is the last one opened and the last one given
\* to fileFunc, if any was, and no per-file progress follows it
NothingAfterCurrent ==
  /\ Len(rfOpened) <= rfCurrentFile /\ Len(rfParsed) <= rfCurrentFile
  /\ \A i \in DOMAIN rfOpened : i < Len(rfOpened) => rfOpened[i] # rfCur
  /\ \A i \in DOMAIN rfParsed : i < Len(rfParsed) => rfParsed[i] # rfCur
  /\ rfFinished < rfCurrentFile
  /\ updateFromFiles => Len(rfCalls) < rfCurrentFile

\* the select on ctx.Done() comes before the file is opened
CancellationCheckedFirst ==
  [][rfPc = "loop" /\ rfCancelled /\ rfCurrentFile' # rfCurrentFile =>
       /\ rfPc' = "done" /\ rfErr' = RfError("context canceled")
       /\ rfOpened' = rfOpened /\ rfParsed' = rfParsed /\ rfCalls' = rfCalls]_vars

\* once readInputFiles has returned nothing is opened, parsed or reported
NothingAfterReturn ==
  [][rfPc = "done" =>
       rfOpened' = rfOpened /\ rfParsed' = rfParsed /\ rfCalls' = rfCalls]_vars

\* an error of opening or decompressing is returned as it is
OpenErrorReturned ==
  [][rfPc = "open" /\ rfPc' = "done" =>
       rfErr' \in {RfError("MakeExportStorage"), RfError("ReadFile")}]_vars

\* C24 as stated: cancellation is checked before a file is opened and the
\* context's error returned without opening it; an error of opening or
\* decompressing a file is returned; when fileFunc has failed for a file,
\* readInputFiles returns that error wrapped with the URI of the file; and
\* after the failing file no file is opened, given to fileFunc or reported.
FileFuncErrorReturned ==
  /\ CancellationCheckedFirst /\ NothingAfterReturn /\ OpenErrorReturned
  /\ [](FailedAtCurrent => NothingAfterCurrent)
  /\ [](rfPc = "done" /\ psErr # RfNil =>
          /\ rfErr.msg = psErr.msg
          /\ rfErr.wraps # <<>> /\ \A i \in DOMAIN rfErr.wraps : rfErr.wraps[i] = FileURI(rfCur))

\* C24, but for the error returned when the rejected rows are collected:
\* when fileFunc has failed for a file, readInputFiles returns an error
\* wrapped with the URI of the file, which is the error of fileFunc, wrapped
\* once more, or the error of writing the rejected rows if the task that
\* writes them returned first.
FirstErrorOfFileReturned ==
  /\ CancellationCheckedFirst /\ NothingAfterReturn /\ OpenErrorReturned
  /\ [](FailedAtCurrent => NothingAfterCurrent)
  /\ [](rfPc = "done" /\ psErr # RfNil =>
          IF rjMade
            THEN \/ rfErr = Wrap(psErr, FileURI(rfCur))
                 \/ skErr # RfNil /\ rfErr = Wrap(skErr, FileURI(rfCur))
            ELSE rfErr = psErr /\ psErr.wraps = <<FileURI(rfCur)>>)

\* fileFunc failed for the second file and readInputFiles returned its error
SecondFileFailed ==
  /\ rfPc = "done" /\ rfCurrentFile = 2 /\ rfN = 3
  /\ psErr = Wrap(RfError("fileFunc"), FileURI(rfCur)) /\ rfErr = psErr
  /\ Len(rfParsed) = 2

\* the error of fileFunc is lost to the error of writing the rejected rows
FileFuncErrorLost ==
  /\ rfPc = "done" /\ psErr # RfNil /\ rfErr.msg = "WriteFile"

\* C25: every index the flush hooks use is within the slices: no flush,
\* by Flush or by an adder that flushes itself during Add, has found a
\* value of writtenRow - the values are what the hooks index with - outside
\* 0..len(spec.Uri)-1 and panicked.
FlushNeverPanics == ~panicked

\* the positions of the progress records in the output of the processor
ProgressRecords == {i \in DOMAIN output : output[i].kind = "progress"}

\* C26: the batches of a file arriving with non-decreasing LastRow, a
\* progress record never reports for a file a smaller completed row than a
\* record sent before it, the final record included.
CompletedRowNeverDecreases ==
  \A i, j \in ProgressRecords :
    i < j => \A f \in Files :
               output[i].prog.CompletedRow[f] <= output[j].prog.CompletedRow[f]

\* a record of no row, a record of a flushed row and the final record
RowsReportedInOrder ==
  /\ Cardinality(ProgressRecords) = 3
  /\ \E f \in Files : \E i, j, k \in ProgressRecords :
       /\ i < j /\ j < k
       /\ output[i].prog.CompletedRow[f] = 0
       /\ output[j].prog.CompletedRow[f] = 1
       /\ output[k].prog.CompletedRow[f] = MaxUint64

\* transaction t holds key k exclusively: a FakeLock of k has t as its
\* exclusive transaction and its mutex is held for writing
HoldsExclusive(t, k) ==
  /\ t \notin lmFinalized
  /\ \E i \in DOMAIN lmObjs :
       lmObjs[i].key = k /\ lmObjs[i].exclusive = t /\ lmObjs[i].w

\* transaction t holds key k shared
HoldsShared(t, k) ==
  /\ t \notin lmFinalized
  /\ \E i \in DOMAIN lmObjs : lmObjs[i].key = k /\ t \in lmObjs[i].shared

\* call c returns in this step
Returns(c) == lmCalls[c].pc # "returned" /\ lmCalls'[c].pc = "returned"

\* C27: no two distinct unfinalized transactions hold the same key when one
\* of them holds it exclusively; AcquireExclusive does not return while
\* another unfinalized transaction holds the key, and AcquireShared does not
\* return while another unfinalized transaction holds it exclusively.
MutualExclusionPerKey ==
  /\ [](\A k \in Keys : \A t, u \in Txns :
          t # u => ~(HoldsExclusive(t, k) /\ (HoldsExclusive(u, k) \/ HoldsShared(u, k))))
  /\ [][\A c \in DOMAIN lmCalls : \A u \in Txns \ {lmCalls[c].txn} :
          /\ Returns(c) /\ lmCalls[c].op = "AcquireExclusive" =>
               ~(HoldsExclusive(u, lmCalls[c].key) \/ HoldsShared(u, lmCalls[c].key))
          /\ Returns(c) /\ lmCalls[c].op = "AcquireShared" =>
               ~HoldsExclusive(u, lmCalls[c].key)]_vars

\* call c is the only call made for its key
OnlyCallForKey(c) ==
  \A d \in DOMAIN lmCalls : lmCalls[d].key = lmCalls[c].key => d = c

\* TryAcquireExclusive call c has returned
TryReturned(c) ==
  lmCalls[c].op = "TryAcquireExclusive" /\ lmCalls[c].pc = "returned"

\* C28: a TryAcquireExclusive on a key nobody holds - no other call was
\* made for the key - returns a lease of the key with a nil error, and the
\* transaction then holds the key exclusively; and after it has returned an
\* error the transaction does not hold the key.
TryAgreesWithLockState ==
  \A c \in DOMAIN lmCalls :
    TryReturned(c) /\ OnlyCallForKey(c) /\ lmCalls[c].txn \notin lmFinalized =>
      /\ lmCalls[c].err = NoErr /\ lmCalls[c].lease # 0
      /\ lmObjs[lmCalls[c].lease].key = lmCalls[c].key
      /\ HoldsExclusive(lmCalls[c].txn, lmCalls[c].key)
      /\ lmCalls[c].err # NoErr => ~HoldsExclusive(lmCalls[c].txn, lmCalls[c].key)
====
